---------------------------- MODULE Spec2Model ----------------------------
(***************************************************************************)
(* A model of the relational migrator of src/migrate/migrate.go: one run   *)
(* of DatabaseMigrator.Migrate, from GetTables to its return, with every   *)
(* database call able to fail.  SortTablesByDependencies is modelled step  *)
(* by step (the foreign-key loop, then the recursive visit with its call   *)
(* stack), MigrateTable and MigrateTableData statement by statement.       *)
(***************************************************************************)
EXTENDS Naturals, Sequences, FiniteSets

(***************************************************************************)
(* Bounds of the model.                                                    *)
(***************************************************************************)
\* Foreign keys one table may have (rows of KEY_COLUMN_USAGE per table).
MaxFks == 2
\* Rows a source table may hold.
MaxRows == 1
\* Largest configured BatchSize (the smallest is 1).
MaxBatch == 2

\* What SHOW TABLES enumerates on the source, in its enumeration order
\* (which is not the order of the names).
SourceTables == <<"B", "A", "C">>

Names == {SourceTables[n] : n \in 1..Len(SourceTables)}

SeqsUpTo(S, n) == UNION {[1..m -> S] : m \in 0..n}

Range(s) == {s[n] : n \in 1..Len(s)}

\* The position of table t in the sequence s (0 when it is absent).
IndexOf(s, t) == IF t \in Range(s) THEN CHOOSE n \in 1..Len(s) : s[n] = t ELSE 0

VARIABLES
    \* ---- main
    handles,         \* the log file and the two connections: nil, open, closed
    run,             \* which run of the program this is, counted from 1
    \* ---- MigrationConfig
    SkipTables,      \* config.SkipTables, as a set of names
    BatchSize,       \* config.BatchSize
    \* ---- Migrate
    pc,              \* the statement Migrate (or its callee) is at
    tables,          \* GetTables' result
    sortedTables,    \* SortTablesByDependencies' result
    i,               \* index of the for loop over sortedTables (1-based)
    err,             \* the error Migrate returns (NoErr: nil)
    \* ---- SortTablesByDependencies (locals, discarded at its return)
    fkIdx,           \* index of the loop over tables that reads foreign keys
    fks,             \* the answer of GetTableForeignKeys in the loop body
    dependencies,    \* table -> retained referenced tables (a list, duplicates kept)
    visited,         \* tables with visited[t] = true
    temp,            \* tables with temp[t] = true
    result,          \* the order built so far
    k,               \* index of the final loop over tables
    stack,           \* call stack of visit: frames [t, j], j the next dependency
    \* ---- MigrateTableData (locals)
    columns,         \* GetTableColumns' result
    totalRows, offset, migratedRows,
    page,            \* rows of the open result set not yet delivered by rows.Next
    stmtOpen,        \* the prepared insert statement is open
    \* ---- the two databases
    srcCount,        \* source: table -> number of rows (fixed once counted)
    fkChecks,        \* destination: FOREIGN_KEY_CHECKS of the session
    destTables,      \* destination: tables created
    destRows,        \* destination: table -> rows inserted, in insertion order
    \* ---- the log file
    logged,          \* the messages Migrate has passed to dm.logger.Log
    \* ---- history
    graph,           \* table -> the set of dependencies retained for it
    log,             \* every database statement issued, in order
    iterErr          \* a result set ended early on an iteration error

sortVars == <<fkIdx, fks, dependencies, visited, temp, result, k, stack>>
dataVars == <<columns, totalRows, offset, migratedRows, page, stmtOpen>>
dbVars   == <<srcCount, fkChecks, destTables, destRows>>
\* Every variable of the MySQL migration (src/migrate/migrate.go).
migrateVars ==
    <<handles, run, logged, SkipTables, BatchSize, pc, tables, sortedTables, i, err,
      sortVars, dataVars, dbVars, graph, log, iterErr>>

VARIABLES
    \* ---- src/json/json.go: MigrationConfig
    config,          \* DryRun, BatchSize, NewFieldName (FieldName is "Content")
    \* ---- the MongoDB collection
    collection,      \* _id -> the fields of the document
    \* ---- runMigration, previewMigration, performMigration
    jpc,             \* the statement the program is at
    jerr,            \* the error runMigration returns ("nil": none)
    cursor,          \* the _ids of the open cursor not yet delivered by Next
    printed,         \* previewMigration: the documents printed, in order
    pipeline,        \* performMigration: the second stage of the pipeline
    processed, successful, failed,
    batchProcessed,
    bulkOps,         \* the update models collected for the batch
    \* ---- history
    ops              \* every operation issued on the collection, and every
                     \* failure of one of its cursors, in order

jsonVars == <<config, collection, jpc, jerr, cursor, printed, pipeline,
              processed, successful, failed, batchProcessed, bulkOps, ops>>

VARIABLES
    \* ---- src/unnamed/part_000: the two databases
    AspNetUsers,         \* the Ids of the rows of the MySQL table, in key order
    ItemAssignmentData,  \* the documents of the MongoDB collection
    \* ---- getAllUserIDsFromMySQL
    userRows,            \* the rows of the result set not yet delivered by Next
    userMap,
    \* ---- cleanInvalidUserAssignments
    cleanPc,             \* the statement the function is at
    cleanErr,            \* the error it returns ("nil": none)
    validUserIDs,
    docCursor,           \* the documents of the cursor not yet delivered by Next
    \* ---- history
    listingCut,          \* a user row was lost: Scan failed or Next ended early
    deletedDocs          \* the documents DeleteOne has removed

cleanVars == <<AspNetUsers, ItemAssignmentData, userRows, userMap, cleanPc, cleanErr,
               validUserIDs, docCursor, listingCut, deletedDocs>>

VARIABLES
    \* ---- src/unnamed/part_002, convertStringIDsToObjectIDs
    idCollection,        \* the documents of the collection
    idPc,                \* the statement the function is at
    idErr,               \* the error it returns ("nil": none)
    idCursor,            \* the documents of the cursor not yet delivered by Next
    idDoc,               \* the document decoded in this iteration
    oldID,
    nextObjectID,        \* the ObjectID primitive.NewObjectID() gives next
    \* ---- history
    idOriginal,          \* the collection as it was at the start
    idOps                \* every write issued on the collection, in order

convVars == <<idCollection, idPc, idErr, idCursor, idDoc, oldID, nextObjectID,
              idOriginal, idOps>>

\* The variables of the other programs of the repository.
toolVars == <<jsonVars, cleanVars, convVars>>

\* The $limit stage the pipeline of performMigration starts with.
LimitStage(n) == [stage |-> "$limit", n |-> n]

\* json.go is not running.
JsonIdle ==
    /\ config = [DryRun |-> TRUE, BatchSize |-> 1, NewFieldName |-> ""]
    /\ collection = <<>>
    /\ jpc = "Idle"
    /\ jerr = "nil"
    /\ cursor = <<>>
    /\ printed = <<>>
    /\ pipeline = LimitStage(1)
    /\ processed = 0
    /\ successful = 0
    /\ failed = 0
    /\ batchProcessed = 0
    /\ bulkOps = <<>>
    /\ ops = <<>>

\* part_000 is not running.
CleanIdle ==
    /\ AspNetUsers = <<>>
    /\ ItemAssignmentData = {}
    /\ userRows = <<>>
    /\ userMap = {}
    /\ cleanPc = "Idle"
    /\ cleanErr = "nil"
    /\ validUserIDs = {}
    /\ docCursor = <<>>
    /\ listingCut = FALSE
    /\ deletedDocs = {}

\* No document is held in idDoc.
NoDoc == [id |-> [type |-> "none", v |-> 0], body |-> 0]

\* part_002 is not running.
ConvIdle ==
    /\ idCollection = {}
    /\ idPc = "Idle"
    /\ idErr = "nil"
    /\ idCursor = <<>>
    /\ idDoc = NoDoc
    /\ oldID = ""
    /\ nextObjectID = 1
    /\ idOriginal = {}
    /\ idOps = <<>>

\* None of the other programs is running.
ToolsIdle == JsonIdle /\ CleanIdle /\ ConvIdle

vars == <<handles, run, toolVars, logged, SkipTables, BatchSize, pc, tables, sortedTables, i, err,
          sortVars, dataVars, dbVars, graph, log, iterErr>>

NoErr == [stage |-> "nil", table |-> "-", cause |-> "-"]

\* fmt.Errorf("<stage> ... %s: %v", table, cause): the wrapped error.
Errorf(stage, table, cause) == [stage |-> stage, table |-> table, cause |-> cause]

\* One database statement in the history.
Stmt(db, op, table, ok) == [db |-> db, op |-> op, table |-> table, ok |-> ok]

EmptyMap == [t \in Names |-> <<>>]

SortLocalsInit ==
    /\ fkIdx = 1
    /\ fks = <<>>
    /\ dependencies = EmptyMap
    /\ visited = {}
    /\ temp = {}
    /\ result = <<>>
    /\ k = 1
    /\ stack = <<>>

\* The locals of SortTablesByDependencies go out of scope at its return.
SortLocalsDiscarded ==
    /\ fkIdx' = 1
    /\ fks' = <<>>
    /\ dependencies' = EmptyMap
    /\ visited' = {}
    /\ temp' = {}
    /\ result' = <<>>
    /\ k' = 1
    /\ stack' = <<>>

DataLocalsInit ==
    /\ columns = <<>>
    /\ totalRows = 0
    /\ offset = 0
    /\ migratedRows = 0
    /\ page = <<>>
    /\ stmtOpen = FALSE

\* What NewDatabaseMigrator returns without error: the log file and both
\* connections open.
AllOpen == [logger |-> "open", sourceDB |-> "open", destDB |-> "open"]

Init ==
    /\ handles = AllOpen
    /\ run = 1
    /\ ToolsIdle
    /\ logged = <<>>
    /\ SkipTables \in SUBSET Names
    /\ BatchSize \in 1..MaxBatch
    /\ pc = "GetTables"
    /\ tables = <<>>
    /\ sortedTables = <<>>
    /\ i = 0
    /\ err = NoErr
    /\ SortLocalsInit
    /\ DataLocalsInit
    /\ srcCount = [t \in Names |-> 0]
    /\ fkChecks = TRUE
    /\ destTables = {}
    /\ destRows = EmptyMap
    /\ graph = [t \in Names |-> {}]
    /\ log = <<>>
    /\ iterErr = FALSE

\* Migrate returns e.
Return(e) ==
    /\ pc' = IF e = NoErr THEN "Done" ELSE "Failed"
    /\ err' = e

(***************************************************************************)
(* GetTables                                                               *)
(***************************************************************************)
FilterSkip(s, skip) == SelectSeq(s, LAMBDA t : t \notin skip)

GetTablesOk ==
    /\ pc = "GetTables"
    /\ logged' = logged \o <<"Starting database migration", "Found tables to migrate",
                              "Analyzing table dependencies...">>
    /\ tables' = FilterSkip(SourceTables, SkipTables)
    /\ log' = Append(log, Stmt("src", "ShowTables", "-", TRUE))
    /\ pc' = "ForeignKeys"
    /\ UNCHANGED <<handles, run, toolVars, SkipTables, BatchSize, sortedTables, i, err, sortVars,
                   dataVars, dbVars, graph, iterErr>>

GetTablesFail ==
    /\ pc = "GetTables"
    /\ logged' = Append(logged, "Starting database migration")
    /\ log' = Append(log, Stmt("src", "ShowTables", "-", FALSE))
    /\ Return(Errorf("failed to get tables", "-", "query"))
    /\ UNCHANGED <<handles, run, toolVars, SkipTables, BatchSize, tables, sortedTables, i, sortVars,
                   dataVars, dbVars, graph, iterErr>>

(***************************************************************************)
(* SortTablesByDependencies: the foreign-key loop                          *)
(***************************************************************************)
\* Retain without the self-reference test of line 274.
RetainSelf(refs, tableName, tbls) ==
    SelectSeq(refs, LAMBDA ref : ref \in Range(tbls))

\* Retain without the membership test of lines 279-284.
RetainOutside(refs, tableName, tbls) ==
    SelectSeq(refs, LAMBDA ref : ref # tableName)

\* The referenced tables kept as dependencies of tableName: not tableName
\* itself, and only members of tbls; order and duplicates are kept.
Retain(refs, tableName, tbls) ==
    SelectSeq(refs, LAMBDA ref : ref # tableName /\ ref \in Range(tbls))

\* GetTableForeignKeys(tables[fkIdx]) answers refs: one loop iteration.  The
\* map allForeignKeys, stored into at line 269 and never read, is not carried.
ForeignKeysOk ==
    /\ pc = "ForeignKeys"
    /\ fkIdx <= Len(tables)
    /\ \E refs \in SeqsUpTo(Names, MaxFks) :
         LET deps == Retain(refs, tables[fkIdx], tables)
         IN  /\ fks' = refs
             /\ dependencies' = [dependencies EXCEPT ![tables[fkIdx]] = deps]
             /\ graph' = [graph EXCEPT ![tables[fkIdx]] = Range(deps)]
             /\ log' = Append(log, Stmt("src", "ForeignKeys", tables[fkIdx], TRUE))
    /\ fkIdx' = fkIdx + 1
    /\ UNCHANGED <<handles, run, toolVars, logged, SkipTables, BatchSize, pc, tables, sortedTables, i, err,
                   visited, temp, result, k, stack, dataVars, dbVars, iterErr>>

\* The loop over tables is over: the locals of its body go out of scope.
ForeignKeysEnd ==
    /\ pc = "ForeignKeys"
    /\ fkIdx > Len(tables)
    /\ fks' = <<>>
    /\ pc' = "Visit"
    /\ UNCHANGED <<handles, run, toolVars, logged, SkipTables, BatchSize, tables, sortedTables, i, err,
                   fkIdx, dependencies, visited, temp, result, k, stack,
                   dataVars, dbVars, graph, log, iterErr>>

\* GetTableForeignKeys fails: SortTablesByDependencies returns nil, err
\* and Migrate returns at once.
ForeignKeysFail ==
    /\ pc = "ForeignKeys"
    /\ fkIdx <= Len(tables)
    /\ log' = Append(log, Stmt("src", "ForeignKeys", tables[fkIdx], FALSE))
    /\ sortedTables' = <<>>
    /\ SortLocalsDiscarded
    /\ Return(Errorf("failed to sort tables by dependencies", tables[fkIdx],
                     "foreign keys query"))
    /\ UNCHANGED <<handles, run, toolVars, logged, SkipTables, BatchSize, tables, i, dataVars, dbVars,
                   graph, iterErr>>

(***************************************************************************)
(* SortTablesByDependencies: the topological sort                          *)
(***************************************************************************)
\* dependencies[tableName] of a Go map: the empty list for a missing key.
DepsOf(tableName) == IF tableName \in Names THEN dependencies[tableName] ELSE <<>>

\* The in-progress test taking a finished table for one in progress.
InProgressOrVisited(tableName) == tableName \in temp \cup visited

\* temp[tableName]: the table is on the current recursion path.
InProgress(tableName) == tableName \in temp

\* The table put in front of the result instead of behind it.
EmitFirst(res, tableName) == <<tableName>> \o res

\* result = append(result, tableName)
Emit(res, tableName) == Append(res, tableName)

Top == stack[Len(stack)]

Pop == SubSeq(stack, 1, Len(stack) - 1)

\* The tables of the list taken by name instead of by position.
RootByName(idx) ==
    SelectSeq(<<"A", "B", "C">>, LAMBDA t : t \in Range(tables))[idx]

\* The table the final loop "for _, tableName := range tables" is at.
Root(idx) == tables[idx]

\* for _, tableName := range tables { if !visited[tableName] { visit(...) } }
SortNextTable ==
    /\ pc = "Visit"
    /\ stack = <<>>
    /\ k <= Len(tables)
    /\ k' = k + 1
    /\ stack' = IF Root(k) \in visited THEN stack
                ELSE <<[t |-> Root(k), j |-> 0]>>
    /\ UNCHANGED <<handles, run, toolVars, logged, SkipTables, BatchSize, pc, tables, sortedTables, i, err,
                   fkIdx, fks, dependencies, visited, temp, result,
                   dataVars, dbVars, graph, log, iterErr>>

\* A cycle error after which Migrate "cleans up" with EnableForeignKeyChecks.
VisitCycleCleanup ==
    /\ pc = "Visit"
    /\ stack # <<>>
    /\ Top.j = 0
    /\ InProgress(Top.t)
    /\ sortedTables' = <<>>
    /\ SortLocalsDiscarded
    /\ pc' = "EnableAfterFail"
    /\ err' = Errorf("failed to sort tables by dependencies", Top.t,
                     "circular dependency")
    /\ UNCHANGED <<handles, run, toolVars, logged, SkipTables, BatchSize, tables, i, dataVars, dbVars,
                   graph, log, iterErr>>

\* The circular-dependency error naming the table the final loop called
\* visit with, the outermost frame, instead of the table found in progress.
VisitCycleNamesRoot ==
    /\ pc = "Visit"
    /\ stack # <<>>
    /\ Top.j = 0
    /\ InProgress(Top.t)
    /\ sortedTables' = <<>>
    /\ SortLocalsDiscarded
    /\ Return(Errorf("failed to sort tables by dependencies", stack[1].t,
                     "circular dependency"))
    /\ UNCHANGED <<handles, run, toolVars, logged, SkipTables, BatchSize, tables, i, dataVars, dbVars,
                   graph, log, iterErr>>

\* visit(t) finds temp[t]: the circular-dependency error unwinds every
\* frame, SortTablesByDependencies returns nil, err and Migrate returns.
VisitCycle ==
    /\ pc = "Visit"
    /\ stack # <<>>
    /\ Top.j = 0
    /\ InProgress(Top.t)
    /\ sortedTables' = <<>>
    /\ SortLocalsDiscarded
    /\ Return(Errorf("failed to sort tables by dependencies", Top.t,
                     "circular dependency"))
    /\ UNCHANGED <<handles, run, toolVars, logged, SkipTables, BatchSize, tables, i, dataVars, dbVars,
                   graph, log, iterErr>>

\* A visit of a finished table that appends the table once more.
VisitSeenAppends ==
    /\ pc = "Visit"
    /\ stack # <<>>
    /\ Top.j = 0
    /\ ~InProgress(Top.t)
    /\ Top.t \in visited
    /\ result' = Emit(result, Top.t)
    /\ stack' = Pop
    /\ UNCHANGED <<handles, run, toolVars, logged, SkipTables, BatchSize, pc, tables, sortedTables, i, err,
                   fkIdx, fks, dependencies, visited, temp,
                   k, dataVars, dbVars, graph, log, iterErr>>

\* visit(t) finds visited[t]: return nil.
VisitSeen ==
    /\ pc = "Visit"
    /\ stack # <<>>
    /\ Top.j = 0
    /\ ~InProgress(Top.t)
    /\ Top.t \in visited
    /\ stack' = Pop
    /\ UNCHANGED <<handles, run, toolVars, logged, SkipTables, BatchSize, pc, tables, sortedTables, i, err,
                   fkIdx, fks, dependencies, visited, temp, result,
                   k, dataVars, dbVars, graph, log, iterErr>>

\* visit(t) of an unvisited table: temp[t] = true.
VisitEnter ==
    /\ pc = "Visit"
    /\ stack # <<>>
    /\ Top.j = 0
    /\ ~InProgress(Top.t)
    /\ Top.t \notin visited
    /\ temp' = temp \cup {Top.t}
    /\ stack' = [stack EXCEPT ![Len(stack)].j = 1]
    /\ UNCHANGED <<handles, run, toolVars, logged, SkipTables, BatchSize, pc, tables, sortedTables, i, err,
                   fkIdx, fks, dependencies, visited, result, k,
                   dataVars, dbVars, graph, log, iterErr>>

\* for _, dep := range dependencies[t] { visit(dep) }: the next call.
VisitDep ==
    /\ pc = "Visit"
    /\ stack # <<>>
    /\ Top.j >= 1
    /\ Top.j <= Len(DepsOf(Top.t))
    /\ stack' = Append([stack EXCEPT ![Len(stack)].j = Top.j + 1],
                       [t |-> DepsOf(Top.t)[Top.j], j |-> 0])
    /\ UNCHANGED <<handles, run, toolVars, logged, SkipTables, BatchSize, pc, tables, sortedTables, i, err,
                   fkIdx, fks, dependencies, visited, temp, result,
                   k, dataVars, dbVars, graph, log, iterErr>>

\* The end of a visit that leaves the table marked in progress.
VisitDoneKeepsTemp ==
    /\ pc = "Visit"
    /\ stack # <<>>
    /\ Top.j > Len(DepsOf(Top.t))
    /\ visited' = visited \cup {Top.t}
    /\ result' = Emit(result, Top.t)
    /\ stack' = Pop
    /\ UNCHANGED <<handles, run, toolVars, logged, SkipTables, BatchSize, pc, tables, sortedTables, i, err,
                   fkIdx, fks, dependencies, k, temp,
                   dataVars, dbVars, graph, log, iterErr>>

\* Every dependency visited: temp[t] = false, visited[t] = true, append, return.
VisitDone ==
    /\ pc = "Visit"
    /\ stack # <<>>
    /\ Top.j > Len(DepsOf(Top.t))
    /\ temp' = temp \ {Top.t}
    /\ visited' = visited \cup {Top.t}
    /\ result' = Emit(result, Top.t)
    /\ stack' = Pop
    /\ UNCHANGED <<handles, run, toolVars, logged, SkipTables, BatchSize, pc, tables, sortedTables, i, err,
                   fkIdx, fks, dependencies, k,
                   dataVars, dbVars, graph, log, iterErr>>

\* return result, nil
SortReturn ==
    /\ pc = "Visit"
    /\ stack = <<>>
    /\ k > Len(tables)
    /\ sortedTables' = result
    /\ SortLocalsDiscarded
    /\ logged' = logged \o <<"Tables sorted by dependencies",
                              "Disabling foreign key checks for migration...">>
    /\ pc' = "Disable"
    /\ UNCHANGED <<handles, run, toolVars, SkipTables, BatchSize, tables, i, err, dataVars, dbVars,
                   graph, log, iterErr>>

(***************************************************************************)
(* Migrate: the constraint toggle and the loop over sortedTables           *)
(***************************************************************************)
\* The loop head "for i, tableName := range sortedTables" at index idx:
\* the next table's MigrateTable, or the final EnableForeignKeyChecks.
LoopPc(idx) == IF idx > Len(sortedTables) THEN "Enable" ELSE "Schema"

\* The message logged there: that of the loop body, or that of line 532.
LoopMsg(idx) ==
    IF idx > Len(sortedTables) THEN "Re-enabling foreign key checks..."
    ELSE "Migrating table"

DisableOk ==
    /\ pc = "Disable"
    /\ fkChecks' = FALSE
    /\ logged' = Append(logged, LoopMsg(1))
    /\ log' = Append(log, Stmt("dest", "Disable", "-", TRUE))
    /\ i' = 1
    /\ pc' = LoopPc(1)
    /\ UNCHANGED <<handles, run, toolVars, SkipTables, BatchSize, tables, sortedTables, err, sortVars,
                   dataVars, srcCount, destTables, destRows, graph, iterErr>>

\* DisableForeignKeyChecks whose error is dropped, as line 526 drops
\* that of EnableForeignKeyChecks: the loop starts all the same.
DisableFailIgnored ==
    /\ pc = "Disable"
    /\ logged' = Append(logged, LoopMsg(1))
    /\ log' = Append(log, Stmt("dest", "Disable", "-", FALSE))
    /\ i' = 1
    /\ pc' = LoopPc(1)
    /\ UNCHANGED <<handles, run, toolVars, SkipTables, BatchSize, tables, sortedTables, err, sortVars,
                   dataVars, dbVars, graph, iterErr>>

\* A failed DisableForeignKeyChecks treated as a failed table is: the error
\* is kept and EnableForeignKeyChecks is called before returning it.
DisableFailEnables ==
    /\ pc = "Disable"
    /\ log' = Append(log, Stmt("dest", "Disable", "-", FALSE))
    /\ err' = Errorf("failed to disable foreign key checks", "-", "exec")
    /\ pc' = "EnableAfterFail"
    /\ UNCHANGED <<handles, run, toolVars, logged, SkipTables, BatchSize, tables, sortedTables, i, sortVars,
                   dataVars, dbVars, graph, iterErr>>

DisableFail ==
    /\ pc = "Disable"
    /\ log' = Append(log, Stmt("dest", "Disable", "-", FALSE))
    /\ Return(Errorf("failed to disable foreign key checks", "-", "exec"))
    /\ UNCHANGED <<handles, run, toolVars, logged, SkipTables, BatchSize, tables, sortedTables, i, sortVars,
                   dataVars, dbVars, graph, iterErr>>

\* A failed table that returns without the EnableForeignKeyChecks of line 526.
TableFailsNoEnable(cause) ==
    /\ pc' = "Failed"
    /\ err' = Errorf("migration failed for table", sortedTables[i], cause)
    /\ i' = i
    /\ logged' = logged

\* A failed table that is skipped: the loop goes on with the next one.
TableFailsContinue(cause) ==
    /\ pc' = LoopPc(i + 1)
    /\ err' = Errorf("migration failed for table", sortedTables[i], cause)
    /\ i' = i + 1
    /\ logged' = Append(logged, LoopMsg(i + 1))

\* MigrateTable(sortedTables[i]) returned an error with this cause: Migrate
\* goes on to the best-effort EnableForeignKeyChecks and will return
\* "migration failed for table <name>: <cause>".
TableFails(cause) ==
    /\ pc' = "EnableAfterFail"
    /\ err' = Errorf("migration failed for table", sortedTables[i], cause)
    /\ i' = i
    /\ logged' = logged

\* MigrateTable(sortedTables[i]) returned nil: the loop goes on.
TableDone ==
    /\ pc' = LoopPc(i + 1)
    /\ err' = err
    /\ i' = i + 1
    /\ logged' = Append(logged, LoopMsg(i + 1))

\* dm.EnableForeignKeyChecks() after a failed table; its error is dropped.
EnableAfterFailOk ==
    /\ pc = "EnableAfterFail"
    /\ fkChecks' = TRUE
    /\ log' = Append(log, Stmt("dest", "Enable", "-", TRUE))
    /\ pc' = "Failed"
    /\ UNCHANGED <<handles, run, toolVars, logged, SkipTables, BatchSize, tables, sortedTables, i, err, sortVars,
                   dataVars, srcCount, destTables, destRows, graph, iterErr>>

EnableAfterFailFail ==
    /\ pc = "EnableAfterFail"
    /\ log' = Append(log, Stmt("dest", "Enable", "-", FALSE))
    /\ pc' = "Failed"
    /\ UNCHANGED <<handles, run, toolVars, logged, SkipTables, BatchSize, tables, sortedTables, i, err, sortVars,
                   dataVars, dbVars, graph, iterErr>>

\* The final EnableForeignKeyChecks, after the last table.
EnableOk ==
    /\ pc = "Enable"
    /\ logged' = Append(logged, "Database migration completed successfully")
    /\ fkChecks' = TRUE
    /\ log' = Append(log, Stmt("dest", "Enable", "-", TRUE))
    /\ Return(NoErr)
    /\ UNCHANGED <<handles, run, toolVars, SkipTables, BatchSize, tables, sortedTables, i, sortVars,
                   dataVars, srcCount, destTables, destRows, graph, iterErr>>

\* The final EnableForeignKeyChecks whose error is dropped: Migrate returns nil.
EnableFailIgnored ==
    /\ pc = "Enable"
    /\ logged' = Append(logged, "Database migration completed successfully")
    /\ log' = Append(log, Stmt("dest", "Enable", "-", FALSE))
    /\ Return(NoErr)
    /\ UNCHANGED <<handles, run, toolVars, SkipTables, BatchSize, tables, sortedTables, i, sortVars,
                   dataVars, dbVars, graph, iterErr>>

\* The completion message logged before the error of the final Enable is
\* looked at.
EnableFailAfterMessage ==
    /\ pc = "Enable"
    /\ logged' = Append(logged, "Database migration completed successfully")
    /\ log' = Append(log, Stmt("dest", "Enable", "-", FALSE))
    /\ Return(Errorf("failed to enable foreign key checks", "-", "exec"))
    /\ UNCHANGED <<handles, run, toolVars, SkipTables, BatchSize, tables, sortedTables, i, sortVars,
                   dataVars, dbVars, graph, iterErr>>

EnableFail ==
    /\ pc = "Enable"
    /\ log' = Append(log, Stmt("dest", "Enable", "-", FALSE))
    /\ Return(Errorf("failed to enable foreign key checks", "-", "exec"))
    /\ UNCHANGED <<handles, run, toolVars, logged, SkipTables, BatchSize, tables, sortedTables, i, sortVars,
                   dataVars, dbVars, graph, iterErr>>

(***************************************************************************)
(* MigrateTable                                                            *)
(***************************************************************************)
tableName == sortedTables[i]

\* GetTableSchema: SHOW CREATE TABLE on the source.
SchemaOk ==
    /\ pc = "Schema"
    /\ log' = Append(log, Stmt("src", "ShowCreate", tableName, TRUE))
    /\ pc' = "Create"
    /\ UNCHANGED <<handles, run, toolVars, logged, SkipTables, BatchSize, tables, sortedTables, i, err, sortVars,
                   dataVars, dbVars, graph, iterErr>>

SchemaFail ==
    /\ pc = "Schema"
    /\ log' = Append(log, Stmt("src", "ShowCreate", tableName, FALSE))
    /\ TableFails("failed to get schema")
    /\ UNCHANGED <<handles, run, toolVars, SkipTables, BatchSize, tables, sortedTables, sortVars,
                   dataVars, dbVars, graph, iterErr>>

\* CREATE TABLE run as CREATE TABLE IF NOT EXISTS: a table the destination
\* already has is no error.
CreateOkIfNotExists ==
    /\ pc = "Create"
    /\ destTables' = destTables \cup {tableName}
    /\ log' = Append(log, Stmt("dest", "Create", tableName, TRUE))
    /\ pc' = "Columns"
    /\ UNCHANGED <<handles, run, toolVars, logged, SkipTables, BatchSize, tables, sortedTables, i, err, sortVars,
                   dataVars, srcCount, fkChecks, destRows, graph, iterErr>>

\* CreateTable: the creation statement of SHOW CREATE TABLE, verbatim, on
\* the destination; it succeeds only if the destination has no table of
\* that name (a CREATE TABLE without IF NOT EXISTS).
CreateOk ==
    /\ pc = "Create"
    /\ tableName \notin destTables
    /\ destTables' = destTables \cup {tableName}
    /\ log' = Append(log, Stmt("dest", "Create", tableName, TRUE))
    /\ pc' = "Columns"
    /\ UNCHANGED <<handles, run, toolVars, logged, SkipTables, BatchSize, tables, sortedTables, i, err, sortVars,
                   dataVars, srcCount, fkChecks, destRows, graph, iterErr>>

CreateFail ==
    /\ pc = "Create"
    /\ log' = Append(log, Stmt("dest", "Create", tableName, FALSE))
    /\ TableFails("failed to create table")
    /\ UNCHANGED <<handles, run, toolVars, SkipTables, BatchSize, tables, sortedTables, sortVars,
                   dataVars, dbVars, graph, iterErr>>

(***************************************************************************)
(* MigrateTableData                                                        *)
(***************************************************************************)
Min(a, b) == IF a <= b THEN a ELSE b

\* SELECT ... LIMIT limit OFFSET off on a table of n rows (rows are
\* numbered 1..n in the source's scan order): rows off+1 .. min(off+limit, n).
SelectPage(off, limit, n) ==
    IF off >= n THEN <<>>
    ELSE [p \in 1..(Min(off + limit, n) - off) |-> off + p]

\* The values a cell may hold as database/sql hands them to Scan into an
\* interface{}: nil, a string, a []byte, a time.Time or an integer.
Nil == [kind |-> "nil"]

String(text) == [kind |-> "string", text |-> text]

Bytes(text) == [kind |-> "bytes", text |-> text]

\* A time.Time of the given year; rest = 0 is January 1st, 00:00:00 UTC of it.
Time(year, rest) == [kind |-> "time", year |-> year, rest |-> rest]

Int64(n) == [kind |-> "int64", n |-> n]

\* v.IsZero(): the instant January 1st, year 1, 00:00:00 UTC.
IsZero(v) == v.year = 1 /\ v.rest = 0

\* SHOW COLUMNS of a source table: every table of the model has a key and
\* a date column.
SourceColumns(t) == <<"Id", "Birthday">>

\* Row number r of source table t, by column name: the key is the row
\* number, the date is a zero date in the odd rows.
SourceRow(t, r) ==
    [c \in {"Id", "Birthday"} |->
        IF c = "Id" THEN Int64(r)
        ELSE IF r % 2 = 1 THEN Bytes("0000-00-00") ELSE Bytes("2024-05-17")]

\* The result set of the page query: the rows SelectPage numbers.
ReadPage(t, off, limit, n) ==
    [p \in 1..Len(SelectPage(off, limit, n)) |-> SourceRow(t, SelectPage(off, limit, n)[p])]

\* rows.Scan(valuePtrs...): the values of the row in the order of the
\* column list of the SELECT.
Scan(row, cols) == [p \in 1..Len(cols) |-> row[cols[p]]]

\* The zero-date test of the type switch, lines 414-441.
ZeroDate(val) ==
    \/ val.kind = "string" /\ val.text \in {"0000-00-00", "0000-00-00 00:00:00"}
    \/ val.kind = "bytes" /\ val.text \in {"0000-00-00", "0000-00-00 00:00:00"}
    \/ val.kind = "time" /\ (IsZero(val) \/ val.year = 0)

\* The mapping of a zero date decided by the column name alone.
SanitizeAnyTable(tbl, colName, val) ==
    IF val = Nil THEN val
    ELSE IF ZeroDate(val)
         THEN IF colName = "Birthday" THEN String("1970-01-01") ELSE Nil
         ELSE val

\* The body of "for i, val := range values" for one value.
Sanitize(tbl, colName, val) ==
    IF val = Nil THEN val
    ELSE IF ZeroDate(val)
         THEN IF tbl = "AspNetUsers" /\ colName = "Birthday"
              THEN String("1970-01-01")
              ELSE Nil
         ELSE val

\* "Process values to handle invalid dates": values[i] for every i.
ProcessValues(tbl, cols, values) ==
    [p \in 1..Len(values) |-> Sanitize(tbl, cols[p], values[p])]

\* insertStmt.Exec(values...) on INSERT INTO t (cols) VALUES (?,...): the
\* row the destination gets, by column name.
InsertRow(cols, values) == [c \in Range(cols) |-> values[IndexOf(cols, c)]]

\* rows.Scan in the history, with the values it delivered.
ScanStmt(table, ok, values) ==
    [db |-> "src", op |-> "Scan", table |-> table, ok |-> ok, values |-> values]

\* insertStmt.Exec in the history, with the columns of the statement and
\* the values bound to them.
InsertStmt(table, ok, cols, values) ==
    [db |-> "dest", op |-> "Insert", table |-> table, ok |-> ok,
     cols |-> cols, values |-> values]

\* The page query in the history, with its OFFSET and LIMIT.
SelectStmt(table, ok, off, limit) ==
    [db |-> "src", op |-> "Select", table |-> table, ok |-> ok,
     off |-> off, limit |-> limit]

\* GetTableColumns: SHOW COLUMNS on the source.
ColumnsOk ==
    /\ pc = "Columns"
    /\ columns' = SourceColumns(tableName)
    /\ log' = Append(log, Stmt("src", "ShowColumns", tableName, TRUE))
    /\ pc' = "Count"
    /\ UNCHANGED <<handles, run, toolVars, logged, SkipTables, BatchSize, tables, sortedTables, i, err, sortVars,
                   totalRows, offset, migratedRows, page, stmtOpen,
                   dbVars, graph, iterErr>>

ColumnsFail ==
    /\ pc = "Columns"
    /\ log' = Append(log, Stmt("src", "ShowColumns", tableName, FALSE))
    /\ TableFails("failed to get columns")
    /\ UNCHANGED <<handles, run, toolVars, SkipTables, BatchSize, tables, sortedTables, sortVars,
                   dataVars, dbVars, graph, iterErr>>

\* GetTableRowCount answers n > 0: on to the insert statement.
CountOk ==
    /\ pc = "Count"
    /\ \E n \in 1..MaxRows :
         /\ srcCount' = [srcCount EXCEPT ![tableName] = n]
         /\ totalRows' = n
    /\ log' = Append(log, Stmt("src", "Count", tableName, TRUE))
    /\ pc' = "Prepare"
    /\ UNCHANGED <<handles, run, toolVars, logged, SkipTables, BatchSize, tables, sortedTables, i, err, sortVars,
                   columns, offset, migratedRows, page, stmtOpen,
                   fkChecks, destTables, destRows, graph, iterErr>>

\* A count of 0 without the test of line 368: on to the insert statement.
CountZeroPrepares ==
    /\ pc = "Count"
    /\ srcCount' = [srcCount EXCEPT ![tableName] = 0]
    /\ totalRows' = 0
    /\ log' = Append(log, Stmt("src", "Count", tableName, TRUE))
    /\ pc' = "Prepare"
    /\ UNCHANGED <<handles, run, toolVars, logged, SkipTables, BatchSize, tables, sortedTables, i, err, sortVars,
                   columns, offset, migratedRows, page, stmtOpen,
                   fkChecks, destTables, destRows, graph, iterErr>>

\* GetTableRowCount answers 0: "is empty, skipping data migration", return nil.
CountZero ==
    /\ pc = "Count"
    /\ srcCount' = [srcCount EXCEPT ![tableName] = 0]
    /\ totalRows' = 0
    /\ log' = Append(log, Stmt("src", "Count", tableName, TRUE))
    /\ TableDone
    /\ UNCHANGED <<handles, run, toolVars, SkipTables, BatchSize, tables, sortedTables, sortVars,
                   columns, offset, migratedRows, page, stmtOpen,
                   fkChecks, destTables, destRows, graph, iterErr>>

CountFail ==
    /\ pc = "Count"
    /\ log' = Append(log, Stmt("src", "Count", tableName, FALSE))
    /\ TableFails("failed to get row count")
    /\ UNCHANGED <<handles, run, toolVars, SkipTables, BatchSize, tables, sortedTables, sortVars,
                   dataVars, dbVars, graph, iterErr>>

\* destDB.Prepare(insertQuery); defer insertStmt.Close(); offset, migratedRows := 0, 0
PrepareOk ==
    /\ pc = "Prepare"
    /\ stmtOpen' = TRUE
    /\ offset' = 0
    /\ migratedRows' = 0
    /\ log' = Append(log, Stmt("dest", "Prepare", tableName, TRUE))
    /\ pc' = "Page"
    /\ UNCHANGED <<handles, run, toolVars, logged, SkipTables, BatchSize, tables, sortedTables, i, err, sortVars,
                   columns, totalRows, page, dbVars, graph, iterErr>>

PrepareFail ==
    /\ pc = "Prepare"
    /\ log' = Append(log, Stmt("dest", "Prepare", tableName, FALSE))
    /\ TableFails("failed to prepare insert statement")
    /\ UNCHANGED <<handles, run, toolVars, SkipTables, BatchSize, tables, sortedTables, sortVars,
                   dataVars, dbVars, graph, iterErr>>

\* "for offset < totalRows": the page query at this offset.
PageOk ==
    /\ pc = "Page"
    /\ offset < totalRows
    /\ page' = ReadPage(tableName, offset, BatchSize, srcCount[tableName])
    /\ log' = Append(log, SelectStmt(tableName, TRUE, offset, BatchSize))
    /\ pc' = "Rows"
    /\ UNCHANGED <<handles, run, toolVars, logged, SkipTables, BatchSize, tables, sortedTables, i, err, sortVars,
                   columns, totalRows, offset, migratedRows, stmtOpen, dbVars, graph,
                   iterErr>>

\* The page query fails and the prepared statement is not closed at the
\* return (MigrateTableData without "defer insertStmt.Close()").
PageFailLeavesOpen ==
    /\ pc = "Page"
    /\ offset < totalRows
    /\ log' = Append(log, SelectStmt(tableName, FALSE, offset, BatchSize))
    /\ TableFails("failed to select data")
    /\ UNCHANGED <<handles, run, toolVars, SkipTables, BatchSize, tables, sortedTables, sortVars,
                   dataVars, dbVars, graph, iterErr>>

PageFail ==
    /\ pc = "Page"
    /\ offset < totalRows
    /\ log' = Append(log, SelectStmt(tableName, FALSE, offset, BatchSize))
    /\ stmtOpen' = FALSE
    /\ TableFails("failed to select data")
    /\ UNCHANGED <<handles, run, toolVars, SkipTables, BatchSize, tables, sortedTables, sortVars,
                   columns, totalRows, offset, migratedRows, page, dbVars, graph, iterErr>>

\* A row that is scanned and kept in memory, to be written when the page
\* has been read to its end.
RowOkBuffered ==
    /\ pc = "Rows"
    /\ page # <<>>
    /\ page' = Tail(page)
    /\ log' = Append(log, ScanStmt(tableName, TRUE, Scan(Head(page), columns)))
    /\ UNCHANGED <<handles, run, toolVars, logged, SkipTables, BatchSize, pc, tables, sortedTables, i, err,
                   sortVars, columns, totalRows, offset, migratedRows, stmtOpen,
                   dbVars, graph, iterErr>>

\* rows.Next() delivers a row, Scan succeeds, the values are processed,
\* insertStmt.Exec succeeds.
RowOk ==
    /\ pc = "Rows"
    /\ page # <<>>
    /\ destRows' = [destRows EXCEPT ![tableName] =
          Append(@, InsertRow(columns,
                       ProcessValues(tableName, columns, Scan(Head(page), columns))))]
    /\ migratedRows' = migratedRows + 1
    /\ page' = Tail(page)
    /\ log' = log \o
          <<ScanStmt(tableName, TRUE, Scan(Head(page), columns)),
            InsertStmt(tableName, TRUE, columns,
                       ProcessValues(tableName, columns, Scan(Head(page), columns)))>>
    /\ UNCHANGED <<handles, run, toolVars, logged, SkipTables, BatchSize, pc, tables, sortedTables, i, err,
                   sortVars, columns, totalRows, offset, stmtOpen,
                   srcCount, fkChecks, destTables, graph, iterErr>>

\* rows.Scan fails: rows.Close(), return the error.
RowScanFail ==
    /\ pc = "Rows"
    /\ page # <<>>
    /\ log' = Append(log, ScanStmt(tableName, FALSE, <<>>))
    /\ page' = <<>>
    /\ stmtOpen' = FALSE
    /\ TableFails("failed to scan row")
    /\ UNCHANGED <<handles, run, toolVars, SkipTables, BatchSize, tables, sortedTables, sortVars,
                   columns, totalRows, offset, migratedRows, dbVars, graph, iterErr>>

\* insertStmt.Exec fails: rows.Close(), return the error.
RowInsertFail ==
    /\ pc = "Rows"
    /\ page # <<>>
    /\ log' = log \o
          <<ScanStmt(tableName, TRUE, Scan(Head(page), columns)),
            InsertStmt(tableName, FALSE, columns,
                       ProcessValues(tableName, columns, Scan(Head(page), columns)))>>
    /\ page' = <<>>
    /\ stmtOpen' = FALSE
    /\ TableFails("failed to insert row")
    /\ UNCHANGED <<handles, run, toolVars, SkipTables, BatchSize, tables, sortedTables, sortVars,
                   columns, totalRows, offset, migratedRows, dbVars, graph, iterErr>>

\* The end of a page with the offset advanced by one, not by BatchSize.
PageOverByOne ==
    /\ page' = <<>>
    /\ offset' = offset + 1
    /\ IF offset + 1 < totalRows
       THEN /\ pc' = "Page"
            /\ UNCHANGED <<i, err, stmtOpen, logged>>
       ELSE /\ stmtOpen' = FALSE
            /\ TableDone

\* The end of a page that also ends the loop when the page was short:
\* fewer rows migrated than the pages so far could hold.
PageOverEndsOnShortPage ==
    /\ page' = <<>>
    /\ offset' = offset + BatchSize
    /\ IF offset + BatchSize < totalRows /\ migratedRows >= offset + BatchSize
       THEN /\ pc' = "Page"
            /\ UNCHANGED <<i, err, stmtOpen, logged>>
       ELSE /\ stmtOpen' = FALSE
            /\ TableDone

\* The page is over (rows.Next() is false): rows.Close(), offset += BatchSize,
\* then the loop test: the next page, or "Completed" and return nil.
PageOver ==
    /\ page' = <<>>
    /\ offset' = offset + BatchSize
    /\ IF offset + BatchSize < totalRows
       THEN /\ pc' = "Page"
            /\ UNCHANGED <<i, err, stmtOpen, logged>>
       ELSE /\ stmtOpen' = FALSE
            /\ TableDone

\* rows.Next() is false because every row of the page was delivered.
RowsEnd ==
    /\ pc = "Rows"
    /\ page = <<>>
    /\ PageOver
    /\ UNCHANGED <<handles, run, toolVars, SkipTables, BatchSize, tables, sortedTables, sortVars,
                   columns, totalRows, migratedRows, dbVars, graph, log, iterErr>>

\* rows.Next() is false because reading the next row failed; the loop
\* does not consult rows.Err(), so this is taken for the end of the page.
RowsIterErr ==
    /\ pc = "Rows"
    /\ page # <<>>
    /\ iterErr' = TRUE
    /\ PageOver
    /\ UNCHANGED <<handles, run, toolVars, SkipTables, BatchSize, tables, sortedTables, sortVars,
                   columns, totalRows, migratedRows, dbVars, graph, log>>

(***************************************************************************)
(* The run                                                                 *)
(***************************************************************************)
Next ==
    \/ GetTablesOk \/ GetTablesFail
    \/ ForeignKeysOk \/ ForeignKeysFail \/ ForeignKeysEnd
    \/ SortNextTable \/ VisitCycle \/ VisitSeen \/ VisitEnter \/ VisitDep
    \/ VisitDone \/ SortReturn
    \/ DisableOk \/ DisableFail
    \/ SchemaOk \/ SchemaFail \/ CreateOk \/ CreateFail
    \/ ColumnsOk \/ ColumnsFail \/ CountOk \/ CountZero \/ CountFail
    \/ PrepareOk \/ PrepareFail \/ PageOk \/ PageFail
    \/ RowOk \/ RowScanFail \/ RowInsertFail \/ RowsEnd \/ RowsIterErr
    \/ EnableAfterFailOk \/ EnableAfterFailFail \/ EnableOk \/ EnableFail

Spec == Init /\ [][Next]_vars

\* Every database call returns: the run takes its next step.
FairSpec == Spec /\ WF_vars(Next)

(***************************************************************************)
(* Vocabulary of the properties                                            *)
(***************************************************************************)
Terminal == {"Done", "Failed"}

\* SortTablesByDependencies has been called and has returned.
SortReturned ==
    /\ pc \notin {"GetTables", "ForeignKeys", "Visit"}
    /\ err.stage # "failed to get tables"

\* ... with an error.
SortFailed == err.stage = "failed to sort tables by dependencies"

CycleError == SortFailed /\ err.cause = "circular dependency"

\* No GetTableForeignKeys call has failed.
ForeignKeysRead ==
    \A n \in 1..Len(log) : log[n].op = "ForeignKeys" => log[n].ok

RECURSIVE ReachFrom(_, _, _)
\* The tables reached from the set S in at most n further steps of g.
ReachFrom(g, S, n) ==
    IF n = 0 THEN S ELSE ReachFrom(g, S \cup UNION {g[x] : x \in S}, n - 1)

\* The tables a reaches through one or more dependency edges of g.
Reachable(g, a) == ReachFrom(g, g[a], Cardinality(Names))

OnCycle(g, a) == a \in Reachable(g, a)

HasCycle(g) == \E a \in Names : OnCycle(g, a)

\* Every retained edge "a depends on b" has b strictly before a in order.
Ordered(order) ==
    \A a \in Names : \A b \in graph[a] :
        /\ IndexOf(order, a) > 0
        /\ IndexOf(order, b) > 0
        /\ IndexOf(order, b) < IndexOf(order, a)

\* The statements of the history that went to the destination.
DestStmts == {n \in 1..Len(log) : log[n].db = "dest"}

DestWrites == {n \in DestStmts : log[n].op \in {"Create", "Prepare", "Insert"}}

EnableCalls == Cardinality({n \in 1..Len(log) : log[n].op = "Enable"})

DisableSucceeded == \E n \in 1..Len(log) : log[n].op = "Disable" /\ log[n].ok

\* Migrate returned the error of a failed MigrateTable.
TableFailed == pc = "Failed" /\ err.stage = "migration failed for table"

(***************************************************************************)
(* C1                                                                      *)
(***************************************************************************)
\* C1 as stated: whenever SortTablesByDependencies has returned on tables
\* whose retained foreign-key graph is acyclic, it returned no error and an
\* order with every dependency strictly before its dependent.
C1_AsStated ==
    (SortReturned /\ ~HasCycle(graph)) => (~SortFailed /\ Ordered(sortedTables))

\* C1, amended: whenever SortTablesByDependencies has returned, every
\* foreign-key query having succeeded, on tables whose retained foreign-key
\* graph is acyclic, it returned no error and an order in which, for every
\* retained edge "A depends on B", B is at a strictly smaller index than A.
C1_TopologicalOrder ==
    (SortReturned /\ ForeignKeysRead /\ ~HasCycle(graph))
        => (~SortFailed /\ Ordered(sortedTables))

\* The sort returned an order that differs from the input order because a
\* table listed first depends, through another table, on one listed later.
C1_Witness ==
    /\ pc = "Disable"
    /\ \E a, b, c \in Names :
         /\ b \in graph[a] /\ c \in graph[b]
         /\ IndexOf(tables, a) < IndexOf(tables, b)
         /\ IndexOf(tables, b) < IndexOf(tables, c)
         /\ sortedTables = <<c, b, a>>

(***************************************************************************)
(* C2                                                                      *)
(***************************************************************************)
\* C2 as stated: SortTablesByDependencies returns an error if and only if
\* the retained graph has a cycle, and with an error it returns no order.
C2_AsStated ==
    SortReturned =>
        /\ SortFailed <=> HasCycle(graph)
        /\ SortFailed => sortedTables = <<>>

\* C2, amended: when every foreign-key query succeeded,
\* SortTablesByDependencies returns an error if and only if the retained
\* graph has a cycle, and that error is the circular-dependency error; its
\* only other error is that of a failed foreign-key query; with either error
\* it returns no order (nil).
C2_ErrorIffCycle ==
    SortReturned =>
        /\ ForeignKeysRead => (SortFailed <=> HasCycle(graph))
        /\ CycleError <=> (ForeignKeysRead /\ HasCycle(graph))
        /\ SortFailed => (CycleError \/ ~ForeignKeysRead)
        /\ SortFailed => sortedTables = <<>>

\* The sort failed on a cycle of length 3 (no two tables refer to each other).
C2_Witness ==
    /\ CycleError
    /\ pc = "Failed"
    /\ \A a \in Names : OnCycle(graph, a)
    /\ \A a, b \in Names : ~(b \in graph[a] /\ a \in graph[b])

(***************************************************************************)
(* C3                                                                      *)
(***************************************************************************)
\* C3: EnableForeignKeyChecks is never invoked twice in a run; it is only
\* invoked after a successful DisableForeignKeyChecks and is the last
\* statement of the run; a run that has returned after a successful Disable
\* invoked it exactly once: on the success path after the last table (every
\* earlier statement succeeded, every table was gone through), on a failure
\* path right after the failed statement of the first failing table.
C3_EnableExactlyOnce ==
    /\ EnableCalls <= 1
    /\ \A n \in 1..Len(log) : log[n].op = "Enable" =>
         /\ n = Len(log)
         /\ DisableSucceeded
         /\ pc \in Terminal
         /\ \/ /\ err.stage # "migration failed for table"
               /\ i = Len(sortedTables) + 1
               /\ \A m \in 1..(n - 1) : log[m].ok
            \/ /\ TableFailed
               /\ ~log[n - 1].ok
               /\ IndexOf(sortedTables, log[n - 1].table) = i
               /\ \A m \in 1..(n - 2) : log[m].ok
    /\ (pc \in Terminal /\ DisableSucceeded) => EnableCalls = 1

\* The very first table failed before anything was created, Disable being
\* the only successful destination statement, and Enable was invoked once.
C3_Witness ==
    /\ TableFailed
    /\ i = 1
    /\ Len(sortedTables) = 3
    /\ destTables = {}
    /\ EnableCalls = 1
    /\ Cardinality(DestStmts) = 2

(***************************************************************************)
(* C4                                                                      *)
(***************************************************************************)
\* C4: every destination write (CreateTable, the prepare of the insert
\* statement, a row insert) comes after a successful
\* DisableForeignKeyChecks and before any EnableForeignKeyChecks of the run,
\* and while MigrateTable is at work the destination's checks are off.
C4_WritesInsideWindow ==
    /\ \A n \in DestWrites :
         /\ \E m \in 1..(n - 1) : log[m].op = "Disable" /\ log[m].ok
         /\ \A m \in 1..(n - 1) : log[m].op # "Enable"
    /\ pc \in {"Schema", "Create", "Columns", "Count", "Prepare", "Page", "Rows"}
         => (~fkChecks /\ EnableCalls = 0)

\* Rows were inserted into the third table of the run, inside the window.
C4_Witness ==
    /\ pc = "Rows"
    /\ i = 3
    /\ destRows[sortedTables[3]] # <<>>
    /\ destRows[sortedTables[1]] # <<>>

(***************************************************************************)
(* C5                                                                      *)
(***************************************************************************)
\* C5: once GetTables has failed, or SortTablesByDependencies has failed (a
\* foreign-key query failed or a cycle was found), or the tables read have a
\* cyclic retained graph and the sort has returned, Migrate has returned an
\* error and the destination has received no statement: no Disable, no
\* Enable, no table, no row, its checks as they were.
C5_NoDestinationStatement ==
    (\/ \E n \in 1..Len(log) :
            log[n].op \in {"ShowTables", "ForeignKeys"} /\ ~log[n].ok
     \/ SortFailed
     \/ SortReturned /\ ForeignKeysRead /\ HasCycle(graph))
        => /\ pc = "Failed"
           /\ err # NoErr
           /\ err.stage \in {"failed to get tables",
                             "failed to sort tables by dependencies"}
           /\ DestStmts = {}
           /\ destTables = {}
           /\ destRows = EmptyMap
           /\ fkChecks

\* The cycle A -> B -> A was found and Migrate returned its error.
C5_Witness ==
    /\ pc = "Failed"
    /\ CycleError
    /\ graph["A"] = {"B"}
    /\ graph["B"] = {"A"}
    /\ err.table \in {"A", "B"}

(***************************************************************************)
(* C6                                                                      *)
(***************************************************************************)
\* The statements MigrateTable issues for one table.
TableOps == {"ShowCreate", "Create", "ShowColumns", "Count", "Prepare",
             "Select", "Scan", "Insert"}

\* Every row of source table t is on the destination, once, in source order.
FullyPopulated(t) ==
    /\ t \in destTables
    /\ Len(destRows[t]) = srcCount[t]
    /\ \A p \in 1..srcCount[t] : destRows[t][p]["Id"] = Int64(p)

\* The tables are gone through one at a time in the order of sortedTables:
\* the statements of the history that concern tables follow that order, for
\* each table the schema fetch comes first, the creation second and the data
\* statements after it, and the tables before the current one have been
\* created and their data migration has returned success.
Sequential ==
    /\ \A m, n \in 1..Len(log) :
         (m < n /\ log[m].op \in TableOps /\ log[n].op \in TableOps)
            => /\ IndexOf(sortedTables, log[m].table) > 0
               /\ IndexOf(sortedTables, log[m].table)
                    <= IndexOf(sortedTables, log[n].table)
               /\ log[n].op = "ShowCreate" => log[m].table # log[n].table
               /\ log[m].op = "Create" =>
                    (log[n].table = log[m].table => log[n].op \notin {"ShowCreate", "Create"})
               /\ log[n].op = "Create" =>
                    (log[m].table = log[n].table => log[m].op = "ShowCreate")
    /\ \A t \in destTables :
         /\ IndexOf(sortedTables, t) > 0
         /\ IndexOf(sortedTables, t) <= i
         /\ \A n \in 1..(IndexOf(sortedTables, t) - 1) :
              /\ sortedTables[n] \in destTables
              /\ \A m \in 1..Len(log) : log[m].table = sortedTables[n] => log[m].ok

\* C6 as stated: the tables are processed strictly one at a time in sorted
\* order (schema, creation, data; the next table not before the data
\* migration of the current one returned success), and whenever a table is
\* on the destination every table it depends on has been created and fully
\* populated.
C6_AsStated ==
    /\ Sequential
    /\ \A t \in destTables : \A d \in graph[t] : FullyPopulated(d)

\* What holds of C6 in every run: the sequencing, and the population of the
\* dependencies in the runs in which no result set ended on an iteration
\* error.
C6_Sequential ==
    /\ Sequential
    /\ ~iterErr => \A t \in destTables : \A d \in graph[t] : FullyPopulated(d)

\* A table was created whose dependency had been created and filled with
\* its rows before it.
C6_Witness ==
    /\ ~iterErr
    /\ \E t \in destTables : \E d \in graph[t] :
         /\ FullyPopulated(d)
         /\ srcCount[d] >= 1

(***************************************************************************)
(* C7                                                                      *)
(***************************************************************************)
\* C7: once a statement of MigrateTable has failed for the table at
\* position i, nothing follows it but one EnableForeignKeyChecks: no
\* statement concerns a table at a later position, no such table is on the
\* destination, and when Migrate has returned it has invoked Enable and
\* returns "migration failed for table" naming table i with the cause.
C7_StopsAtFailedTable ==
    /\ \A n \in 1..Len(log) :
         (log[n].op \in TableOps /\ ~log[n].ok) =>
            /\ IndexOf(sortedTables, log[n].table) = i
            /\ \A m \in (n + 1)..Len(log) : log[m].op = "Enable"
            /\ pc \in {"EnableAfterFail", "Failed"}
            /\ err.stage = "migration failed for table"
            /\ err.table = log[n].table
            /\ err.cause \in {"failed to get schema", "failed to create table",
                              "failed to get columns", "failed to get row count",
                              "failed to prepare insert statement",
                              "failed to select data", "failed to scan row",
                              "failed to insert row"}
            /\ pc = "Failed" => EnableCalls = 1
            /\ \A m \in 1..Len(log) :
                 log[m].op \in TableOps => IndexOf(sortedTables, log[m].table) <= i
            /\ \A t \in destTables : IndexOf(sortedTables, t) <= i
            /\ \A p \in (i + 1)..Len(sortedTables) : destRows[sortedTables[p]] = <<>>
    /\ TableFailed => \E n \in 1..Len(log) : log[n].op \in TableOps /\ ~log[n].ok

\* The second of three tables failed on an insert, the first having been
\* migrated with its rows.
C7_Witness ==
    /\ TableFailed
    /\ Len(sortedTables) = 3
    /\ i = 2
    /\ err.cause = "failed to insert row"
    /\ destRows[sortedTables[1]] # <<>>
    /\ sortedTables[2] \in destTables
    /\ sortedTables[3] \notin destTables

(***************************************************************************)
(* C8                                                                      *)
(***************************************************************************)
TableSteps == {"Schema", "Create", "Columns", "Count", "Prepare", "Page", "Rows"}

\* The state of the run at statement p, the loop being at index idx.  The
\* best-effort Enable after a failed table belongs to that table's state.
StateAt(p, idx) ==
    CASE p = "GetTables" -> <<"Inspecting", 0>>
      [] p \in {"ForeignKeys", "Visit"} -> <<"Sorting", 0>>
      [] p = "Disable" -> <<"ConstraintsDisabled", 0>>
      [] p \in TableSteps \cup {"EnableAfterFail"} -> <<"MigratingTable", idx>>
      [] p = "Enable" -> <<"ConstraintsRestored", 0>>
      [] p = "Done" -> <<"Done", 0>>
      [] p = "Failed" -> <<"Failed", 0>>
      [] p = "Panic" -> <<"Panicked", 0>>

\* The state that follows state a in the order of the run, n tables sorted.
StateAfter(a, n) ==
    CASE a[1] = "Inspecting" -> <<"Sorting", 0>>
      [] a[1] = "Sorting" -> <<"ConstraintsDisabled", 0>>
      [] a[1] = "ConstraintsDisabled" ->
            IF n >= 1 THEN <<"MigratingTable", 1>> ELSE <<"ConstraintsRestored", 0>>
      [] a[1] = "MigratingTable" ->
            IF a[2] < n THEN <<"MigratingTable", a[2] + 1>>
            ELSE <<"ConstraintsRestored", 0>>
      [] a[1] = "ConstraintsRestored" -> <<"Done", 0>>
      [] OTHER -> <<"none", 0>>

\* A step stays in its state, or moves to the next state of the order, or
\* moves to Failed; no step leaves Done or Failed.
StepInOrder ==
    /\ pc \notin Terminal
    /\ \/ StateAt(pc', i') = StateAt(pc, i)
       \/ StateAt(pc', i') = StateAfter(StateAt(pc, i), Len(sortedTables'))
       \/ pc' = "Failed"

\* Migrate has returned nil: every table of the sorted order is on the
\* destination, its row count was read and every statement issued for it
\* succeeded, and the last statement of the run is a successful Enable.
DoneOnlyIf ==
    pc = "Done" =>
        /\ err = NoErr
        /\ i = Len(sortedTables) + 1
        /\ destTables = Range(sortedTables)
        /\ \A n \in 1..Len(sortedTables) :
             \E m \in 1..Len(log) : log[m] = Stmt("src", "Count", sortedTables[n], TRUE)
        /\ \A m \in 1..Len(log) : log[m].ok
        /\ log[Len(log)] = Stmt("dest", "Enable", "-", TRUE)
        /\ fkChecks

\* C8: the run goes through Inspecting, Sorting, ConstraintsDisabled,
\* MigratingTable(1..n), ConstraintsRestored, Done in this order and never
\* back, the only other successor of a non-terminal state being Failed;
\* every run (every database call returning, BatchSize >= 1) ends in Done or
\* in Failed and stays there; Done is reached only if every table was
\* created, its data moved with no error reported and the final Enable
\* succeeded.
C8_RunStateOrder ==
    /\ [][StepInOrder]_vars
    /\ <>(pc \in Terminal)
    /\ []DoneOnlyIf

\* Three tables, each with rows, migrated and the run Done.
C8_Witness ==
    /\ pc = "Done"
    /\ Len(sortedTables) = 3
    /\ \A t \in Names : FullyPopulated(t) /\ srcCount[t] >= 1

(***************************************************************************)
(* C9                                                                      *)
(***************************************************************************)
\* The foreign keys of t have been read in the running sort.
FksRead(t) == pc \in {"ForeignKeys", "Visit"} /\ 0 < IndexOf(tables, t) /\ IndexOf(tables, t) < fkIdx

\* The loop body has just read the foreign keys of table t into fks.
JustRead(t) == pc = "ForeignKeys" /\ fkIdx > 1 /\ tables[fkIdx - 1] = t

\* C9: no table is its own dependency, in the dependency map and in every
\* frame of visit; while the sort runs the edges of a table are the
\* dependencies retained when its foreign keys were read, and a table whose
\* foreign keys all referenced itself was given none; a table without
\* dependencies is appended as soon as it is entered, and a
\* circular-dependency error never names one.
C9_NoSelfEdge ==
    /\ \A t \in Names :
         /\ t \notin Range(dependencies[t])
         /\ t \notin graph[t]
         /\ FksRead(t) => graph[t] = Range(dependencies[t])
         /\ (JustRead(t) /\ Range(fks) \subseteq {t}) => dependencies[t] = <<>>
         /\ JustRead(t) => Range(dependencies[t]) \subseteq Range(fks) \ {t}
         /\ dependencies[t] = <<>> =>
              \A n \in 1..Len(stack) :
                  (stack[n].t = t /\ stack[n].j >= 1) => (n = Len(stack) /\ stack[n].j = 1)
    /\ \A n \in 1..(Len(stack) - 1) : stack[n].t # stack[n + 1].t
    /\ CycleError => (graph[err.table] # {} /\ OnCycle(graph, err.table))

\* A table with two self-referencing foreign keys and no other has just been
\* read, and no dependency was recorded for it.
C9_Witness ==
    \E t \in Names :
        /\ JustRead(t)
        /\ fks = <<t, t>>
        /\ dependencies[t] = <<>>

(***************************************************************************)
(* C10                                                                     *)
(***************************************************************************)
\* C10: every dependency recorded for a table is a member of the list
\* passed to SortTablesByDependencies, and of the references to members that
\* the table's foreign keys hold none is lost; only members of the list are
\* visited or put in the order, so the order returned holds no outside
\* table; and a circular-dependency error names a member of the list that is
\* on a cycle made of members of the list only.
C10_OutsideReferencesDropped ==
    /\ \A t \in Names :
         /\ Range(dependencies[t]) \subseteq Range(tables)
         /\ graph[t] \subseteq Range(tables)
         /\ t \notin Range(tables) => (dependencies[t] = <<>> /\ graph[t] = {})
         /\ JustRead(t) =>
              Range(dependencies[t]) = (Range(fks) \cap Range(tables)) \ {t}
    /\ \A n \in 1..Len(stack) : stack[n].t \in Range(tables)
    /\ visited \cup temp \subseteq Range(tables)
    /\ Range(result) \subseteq Range(tables)
    /\ Range(sortedTables) \subseteq Range(tables)
    /\ CycleError => (err.table \in Range(tables) /\ OnCycle(graph, err.table))
    /\ (SortReturned /\ ForeignKeysRead /\ ~HasCycle(graph)) => ~SortFailed

\* A table of the list has just been read with a foreign key to a skipped
\* table and one to a member of the list: only the member was recorded.
C10_Witness ==
    \E t \in Range(tables) : \E o \in SkipTables : \E m \in Range(tables) \ {t} :
        /\ JustRead(t)
        /\ fks = <<o, m>>
        /\ dependencies[t] = <<m>>

(***************************************************************************)
(* C11                                                                     *)
(***************************************************************************)
\* The order built by the sort: result while it runs, its return value after.
SortOrder == IF pc = "Visit" THEN result ELSE sortedTables

\* The tables of order before position n.
EmittedBefore(order, n) == {order[m] : m \in 1..(n - 1)}

\* The positions in the input list of the tables outside done whose
\* retained dependencies are all in done.
ReadyAt(done) ==
    {n \in 1..Len(tables) : tables[n] \notin done /\ graph[tables[n]] \subseteq done}

\* The earliest table of the input list that is not in done.
EarliestNotIn(done) ==
    tables[CHOOSE n \in 1..Len(tables) :
              tables[n] \notin done /\ \A m \in 1..(n - 1) : tables[m] \in done]

DataMaxRows == 5
\* Largest BatchSize of DataSpec.
DataMaxBatch == 3

DataTables == {"AspNetUsers", "Orders"}

\* The messages of Migrate up to the first table.
DataLogged ==
    <<"Starting database migration", "Found tables to migrate",
      "Analyzing table dependencies...", "Tables sorted by dependencies",
      "Disabling foreign key checks for migration...", "Migrating table">>

\* The statements of Migrate on the one table t before the insert statement
\* is prepared.
DataPrefix(t) ==
    <<Stmt("src", "ShowTables", "-", TRUE),
      Stmt("src", "ForeignKeys", t, TRUE),
      Stmt("dest", "Disable", "-", TRUE),
      Stmt("src", "ShowCreate", t, TRUE),
      Stmt("dest", "Create", t, TRUE),
      Stmt("src", "ShowColumns", t, TRUE),
      Stmt("src", "Count", t, TRUE)>>

DataInit ==
    /\ handles = AllOpen
    /\ run = 1
    /\ ToolsIdle
    /\ logged = DataLogged
    /\ SkipTables = {}
    /\ BatchSize \in 1..DataMaxBatch
    /\ pc = "Prepare"
    /\ tables \in {<<t>> : t \in DataTables}
    /\ sortedTables = tables
    /\ i = 1
    /\ err = NoErr
    /\ SortLocalsInit
    /\ columns = SourceColumns(tables[1])
    /\ totalRows \in 1..DataMaxRows
    /\ offset = 0
    /\ migratedRows = 0
    /\ page = <<>>
    /\ stmtOpen = FALSE
    /\ srcCount \in {[t \in DataTables |-> IF t = tables[1] THEN n ELSE 0] :
                        n \in 0..DataMaxRows}
    /\ fkChecks = FALSE
    /\ destTables = {tables[1]}
    /\ destRows = [t \in DataTables |-> <<>>]
    /\ graph = [t \in DataTables |-> {}]
    /\ log = DataPrefix(tables[1])
    /\ iterErr = FALSE

DataNext ==
    \/ PrepareOk \/ PrepareFail \/ PageOk \/ PageFail
    \/ RowOk \/ RowScanFail \/ RowInsertFail \/ RowsEnd \/ RowsIterErr
    \/ EnableAfterFailOk \/ EnableAfterFailFail \/ EnableOk \/ EnableFail

DataSpec == DataInit /\ [][DataNext]_vars

\* Every call returns: the run takes its next step.
FairDataSpec == DataSpec /\ WF_vars(DataNext)

(***************************************************************************)
(* C12                                                                     *)
(***************************************************************************)
\* The page reads of the history, in order.
Reads == SelectSeq(log, LAMBDA e : e.op = "Select")

\* The position in the history of page read number n.
ReadPos(n) ==
    CHOOSE m \in 1..Len(log) :
        /\ log[m].op = "Select"
        /\ Cardinality({q \in 1..m : log[q].op = "Select"}) = n

\* The rows written from page read number n.
RowsOfRead(n) ==
    Cardinality({m \in 1..Len(log) :
        /\ log[m].op = "Insert" /\ log[m].ok
        /\ m > ReadPos(n)
        /\ n < Len(Reads) => m < ReadPos(n + 1)})

\* ceil(a / b)
Ceil(a, b) == (a + b - 1) \div b

\* The source holds what was counted, and no call has failed so far.
Unchanging == srcCount[sortedTables[1]] = totalRows

NoErrorSoFar == ~iterErr /\ \A n \in 1..Len(log) : log[n].ok

\* MigrateTableData of the table has returned nil.
DataReturnedNil == i = 2

\* C12: on an unchanging source and without errors, the page reads are at
\* offsets 0, BatchSize, 2*BatchSize, ..., each with limit BatchSize; every
\* page but the one being read has given min(BatchSize, total - offset)
\* rows to the destination; there are never more than ceil(total/BatchSize)
\* reads, and when MigrateTableData has returned there were exactly that
\* many and the destination holds exactly total rows, row p of the source
\* at position p, every column holding the (processed) value read for that
\* same column.
C12_ExactPages ==
    (Unchanging /\ NoErrorSoFar) =>
        LET t == sortedTables[1]
        IN  /\ \A n \in 1..Len(Reads) :
                 /\ Reads[n].table = t
                 /\ Reads[n].off = (n - 1) * BatchSize
                 /\ Reads[n].limit = BatchSize
                 /\ (n < Len(Reads) \/ pc # "Rows") =>
                      RowsOfRead(n) = Min(BatchSize, totalRows - (n - 1) * BatchSize)
            /\ Len(Reads) <= Ceil(totalRows, BatchSize)
            /\ DataReturnedNil =>
                 /\ Len(Reads) = Ceil(totalRows, BatchSize)
                 /\ Len(destRows[t]) = totalRows
                 /\ migratedRows = totalRows
                 /\ \A p \in 1..totalRows :
                      /\ DOMAIN destRows[t][p] = Range(columns)
                      /\ \A c \in Range(columns) :
                           destRows[t][p][c] = Sanitize(t, c, SourceRow(t, p)[c])

\* Five rows with BatchSize 2 were migrated in three pages of 2, 2 and 1.
C12_Witness ==
    /\ pc = "Done"
    /\ Unchanging /\ NoErrorSoFar
    /\ totalRows = 5 /\ BatchSize = 2
    /\ Len(Reads) = 3
    /\ RowsOfRead(1) = 2 /\ RowsOfRead(2) = 2 /\ RowsOfRead(3) = 1
    /\ Len(destRows[sortedTables[1]]) = 5

(***************************************************************************)
(* C13                                                                     *)
(***************************************************************************)
\* The statements MigrateTable issues for a table before and at its count.
UpToCount == {"ShowCreate", "Create", "ShowColumns", "Count"}

\* C13: once a table has been counted at 0 rows, it is on the destination
\* with no row; no insert statement was prepared, no page read and no row
\* scanned or inserted for it; every statement issued for it succeeded;
\* MigrateTable returned nil for it (it is not the table Migrate fails on)
\* and the very next statement, if any, is the schema fetch of the next
\* table of the order or, after the last table, the final Enable.
C13_EmptyTableSkipped ==
    \A n \in 1..Len(log) :
        (log[n].op = "Count" /\ log[n].ok /\ srcCount[log[n].table] = 0) =>
            LET t == log[n].table
                p == IndexOf(sortedTables, t)
            IN  /\ t \in destTables
                /\ destRows[t] = <<>>
                /\ \A m \in 1..Len(log) :
                     (log[m].table = t /\ log[m].op \in TableOps) =>
                        (log[m].op \in UpToCount /\ log[m].ok /\ m <= n)
                /\ p > 0 /\ i > p
                /\ ~(TableFailed /\ err.table = t)
                /\ n = Len(log) => pc = LoopPc(p + 1)
                /\ n < Len(log) =>
                     IF p < Len(sortedTables)
                     THEN /\ log[n + 1].op = "ShowCreate"
                          /\ log[n + 1].table = sortedTables[p + 1]
                     ELSE /\ log[n + 1].op = "Enable"
                          /\ n + 1 = Len(log)

\* The first of three tables was empty and created, the run went on and
\* filled the second, and ended Done.
C13_Witness ==
    /\ pc = "Done"
    /\ Len(sortedTables) = 3
    /\ srcCount[sortedTables[1]] = 0
    /\ sortedTables[1] \in destTables
    /\ destRows[sortedTables[1]] = <<>>
    /\ destRows[sortedTables[2]] # <<>>

(***************************************************************************)
(* C14: the processing of the values of one row, on every row of two       *)
(* columns drawn from CellValues, for two tables and three column lists.   *)
(***************************************************************************)
\* The zero dates: as text, as bytes, and as date values (the zero
\* time.Time and two dates of year 0).
ZeroDates ==
    {String("0000-00-00"), String("0000-00-00 00:00:00"),
     Bytes("0000-00-00"), Bytes("0000-00-00 00:00:00"),
     Time(1, 0), Time(0, 0), Time(0, 1)}

\* Dates that are not zero, and values of other kinds.
OtherValues ==
    {String("2024-05-17"), Bytes("2024-05-17 10:30:00"), Time(1, 1),
     Time(2024, 0), String("Birthday"), Int64(0)}

CellValues == ZeroDates \cup OtherValues \cup {Nil}

SanColumnLists == {<<"Birthday", "Name">>, <<"Name", "Birthday">>, <<"Id", "Name">>}

\* MigrateTableData about to take the only row of the only page of a table.
SanInit ==
    /\ handles = AllOpen
    /\ run = 1
    /\ ToolsIdle
    /\ logged = DataLogged
    /\ SkipTables = {}
    /\ BatchSize \in 1..DataMaxBatch
    /\ pc = "Rows"
    /\ tables \in {<<t>> : t \in DataTables}
    /\ sortedTables = tables
    /\ i = 1
    /\ err = NoErr
    /\ SortLocalsInit
    /\ columns \in SanColumnLists
    /\ totalRows = 1
    /\ offset = 0
    /\ migratedRows = 0
    /\ page \in {<<row>> : row \in [Range(columns) -> CellValues]}
    /\ stmtOpen = TRUE
    /\ srcCount = [t \in DataTables |-> IF t = tables[1] THEN 1 ELSE 0]
    /\ fkChecks = FALSE
    /\ destTables = {tables[1]}
    /\ destRows = [t \in DataTables |-> <<>>]
    /\ graph = [t \in DataTables |-> {}]
    /\ log = DataPrefix(tables[1]) \o
               <<Stmt("dest", "Prepare", tables[1], TRUE),
                 SelectStmt(tables[1], TRUE, 0, BatchSize)>>
    /\ iterErr = FALSE

SanNext ==
    \/ RowOk \/ RowScanFail \/ RowInsertFail \/ RowsEnd \/ RowsIterErr
    \/ EnableAfterFailOk \/ EnableAfterFailFail \/ EnableOk \/ EnableFail

SanSpec == SanInit /\ [][SanNext]_vars

\* What C14 says value val of column colName of table tbl becomes.
C14_Expected(tbl, colName, val) ==
    IF val \in ZeroDates
    THEN IF tbl = "AspNetUsers" /\ colName = "Birthday"
         THEN String("1970-01-01")
         ELSE Nil
    ELSE val

\* C14: every insert is bound to the values of the scan just before it, as
\* many and in the same order, each changed only as follows: a zero date in
\* AspNetUsers.Birthday is the text 1970-01-01, a zero date in any other
\* table and column is null, anything else (a non-zero date, a null, a value
\* of another kind) is itself; and the row on the destination holds, for
\* each column, the value bound to it.
C14_Sanitization ==
    /\ \A n \in 1..Len(log) : log[n].op = "Insert" =>
         /\ n > 1
         /\ log[n - 1].op = "Scan" /\ log[n - 1].ok
         /\ log[n - 1].table = log[n].table
         /\ Len(log[n].values) = Len(log[n - 1].values)
         /\ Len(log[n].values) = Len(log[n].cols)
         /\ \A p \in 1..Len(log[n].values) :
              log[n].values[p] =
                 C14_Expected(log[n].table, log[n].cols[p], log[n - 1].values[p])
    /\ \A t \in DOMAIN destRows : \A r \in 1..Len(destRows[t]) :
         \E n \in 1..Len(log) :
            /\ log[n].op = "Insert" /\ log[n].ok /\ log[n].table = t
            /\ DOMAIN destRows[t][r] = Range(log[n].cols)
            /\ \A p \in 1..Len(log[n].cols) :
                 destRows[t][r][log[n].cols[p]] = log[n].values[p]

\* A row of AspNetUsers with a zero date read in both its columns was
\* inserted with the placeholder in Birthday and null in the other column.
C14_Witness ==
    \E n \in 2..Len(log) :
        /\ log[n].op = "Insert" /\ log[n].ok
        /\ log[n].table = "AspNetUsers"
        /\ log[n].cols = <<"Name", "Birthday">>
        /\ log[n - 1].values = <<Bytes("0000-00-00 00:00:00"), Time(0, 1)>>
        /\ log[n].values = <<Nil, String("1970-01-01")>>
        /\ destRows["AspNetUsers"] =
             <<[c \in {"Name", "Birthday"} |->
                  IF c = "Birthday" THEN String("1970-01-01") ELSE Nil]>>

(***************************************************************************)
(* C15                                                                     *)
(***************************************************************************)
DataOps == {"Select", "Scan", "Insert"}

\* Migrate is returning, or has returned, the failure of a table.
TableFailing ==
    pc \in {"EnableAfterFail", "Failed"} /\ err.stage = "migration failed for table"

\* A failed page query, scan or insert ends the table at once: nothing
\* follows it in the history but the best-effort Enable, and Migrate returns
\* the failure with the name of the table.
ReportedErrorsAbort ==
    \A n \in 1..Len(log) : (log[n].op \in DataOps /\ ~log[n].ok) =>
        /\ TableFailing
        /\ err.table = log[n].table
        /\ \A m \in (n + 1)..Len(log) : log[m].op = "Enable"

\* C15 as stated: a failed page query, scan or insert, and also an error
\* that ends the iteration over a page early, makes MigrateTableData return
\* an error at once: no further page is read, no further row inserted, the
\* table is never reported migrated, and Migrate returns the failure.
C15_AsStated ==
    /\ ReportedErrorsAbort
    /\ iterErr => TableFailing

\* What holds of C15: the errors of the page query, of Scan and of Exec.
C15_ReportedErrors == ReportedErrorsAbort

(***************************************************************************)
(* C16                                                                     *)
(***************************************************************************)
\* Every source table outside the skip-set is on the destination with each
\* of its rows exactly once, and two tables of which the second depends on
\* the first were migrated in that order.
AllMigrated ==
    /\ \A t \in Names \ SkipTables :
         /\ FullyPopulated(t)
         /\ \A p, q \in 1..Len(destRows[t]) :
              destRows[t][p]["Id"] = destRows[t][q]["Id"] => p = q
    /\ destTables = Names \ SkipTables
    /\ \A a, b \in Names :
         (Range(tables) = {a, b} /\ graph[a] = {} /\ graph[b] = {a})
            => sortedTables = <<a, b>>

\* C16 as stated: when Migrate has returned success, every source table
\* not in the skip-set exists on the destination with as many rows as on the
\* source, every source row written exactly once, and a table without
\* foreign keys comes before the table that references it.
C16_AsStated == pc = "Done" => AllMigrated

\* What holds of C16: the same in the runs in which no result set ended on
\* an iteration error.
C16_WithoutIterationError == (pc = "Done" /\ ~iterErr) => AllMigrated

(***************************************************************************)
(* main: NewDatabaseMigrator, Migrate, and the end of the process.  The    *)
(* source lists at most two tables here.                                   *)
(***************************************************************************)
NoHandles == [logger |-> "nil", sourceDB |-> "nil", destDB |-> "nil"]

MainInit ==
    /\ handles = NoHandles
    /\ run = 1
    /\ ToolsIdle
    /\ logged = <<>>
    /\ SkipTables \in {S \in SUBSET Names : S # {}}
    /\ BatchSize \in 1..MaxBatch
    /\ pc = "NewLogger"
    /\ tables = <<>>
    /\ sortedTables = <<>>
    /\ i = 0
    /\ err = NoErr
    /\ SortLocalsInit
    /\ DataLocalsInit
    /\ srcCount = [t \in Names |-> 0]
    /\ fkChecks = TRUE
    /\ destTables = {}
    /\ destRows = EmptyMap
    /\ graph = [t \in Names |-> {}]
    /\ log = <<>>
    /\ iterErr = FALSE

\* A step of NewDatabaseMigrator that succeeds: handle h (if any) is open
\* and the constructor goes on to the step next.
CtorOk(at, h, next) ==
    /\ pc = at
    /\ handles' = IF h = "none" THEN handles ELSE [handles EXCEPT ![h] = "open"]
    /\ pc' = next
    /\ UNCHANGED <<run, toolVars, logged, SkipTables, BatchSize, tables, sortedTables, i, err,
                   sortVars, dataVars, dbVars, graph, log, iterErr>>

\* A step of NewDatabaseMigrator that fails: return nil, err.  Nothing that
\* was opened before is closed.
CtorFail(at, cause) ==
    /\ pc = at
    /\ pc' = "NoMigrator"
    /\ err' = Errorf("Failed to create migrator", "-", cause)
    /\ UNCHANGED <<handles, run, toolVars, logged, SkipTables, BatchSize, tables, sortedTables, i,
                   sortVars, dataVars, dbVars, graph, log, iterErr>>

NewLoggerOk == CtorOk("NewLogger", "logger", "OpenSource")

NewLoggerFail == CtorFail("NewLogger", "failed to create logger")

\* sql.Open("mysql", sourceDSN)
OpenSourceOk == CtorOk("OpenSource", "sourceDB", "OpenDest")

OpenSourceFail == CtorFail("OpenSource", "failed to connect to source database")

\* sql.Open("mysql", destDSN)
OpenDestOk == CtorOk("OpenDest", "destDB", "PingSource")

OpenDestFail == CtorFail("OpenDest", "failed to connect to destination database")

PingSourceOk == CtorOk("PingSource", "none", "PingDest")

PingSourceFail == CtorFail("PingSource", "failed to ping source database")

\* The last ping succeeds: the migrator is returned, main defers Close and
\* calls Migrate.
PingDestOk == CtorOk("PingDest", "none", "GetTables")

PingDestFail == CtorFail("PingDest", "failed to ping destination database")

\* The process ends with the handles as they are.
ExitAsIs ==
    /\ handles' = handles
    /\ pc' = "Exited"
    /\ UNCHANGED <<run, toolVars, logged, SkipTables, BatchSize, tables, sortedTables, i, err,
                   sortVars, dataVars, dbVars, graph, log, iterErr>>

\* DatabaseMigrator.Close: every handle that is not nil is closed.
Close ==
    /\ handles' = [h \in DOMAIN handles |->
                      IF handles[h] = "nil" THEN "nil" ELSE "closed"]
    /\ pc' = "Exited"
    /\ UNCHANGED <<run, toolVars, logged, SkipTables, BatchSize, tables, sortedTables, i, err,
                   sortVars, dataVars, dbVars, graph, log, iterErr>>

\* Migrate returned nil: main prints and returns, the deferred Close runs.
MainReturn ==
    /\ pc = "Done"
    /\ Close

\* log.Fatalf("Failed to create migrator"): os.Exit(1); nothing was deferred.
FatalNoMigrator ==
    /\ pc = "NoMigrator"
    /\ ExitAsIs

\* log.Fatalf("Migration failed"): os.Exit(1), which runs no deferred call.
FatalMigrationFailed ==
    /\ pc = "Failed"
    /\ ExitAsIs

MainNext ==
    \/ NewLoggerOk \/ NewLoggerFail \/ OpenSourceOk \/ OpenSourceFail
    \/ OpenDestOk \/ OpenDestFail \/ PingSourceOk \/ PingSourceFail
    \/ PingDestOk \/ PingDestFail
    \/ Next
    \/ MainReturn \/ FatalNoMigrator \/ FatalMigrationFailed

MainSpec == MainInit /\ [][MainNext]_vars

(***************************************************************************)
(* C17                                                                     *)
(***************************************************************************)
\* C17 as stated: when the run has ended no handle is open, whichever way
\* it ended; and while Migrate runs all three are open.
C17_AsStated ==
    /\ pc = "Exited" => \A h \in DOMAIN handles : handles[h] # "open"
    /\ pc \notin {"NewLogger", "OpenSource", "OpenDest", "PingSource",
                  "PingDest", "NoMigrator", "Exited"} => handles = AllOpen

\* What holds of C17: the handles are released when Migrate succeeded.
C17_ReleasedOnSuccess ==
    (pc = "Exited" /\ err = NoErr) => \A h \in DOMAIN handles : handles[h] = "closed"

(***************************************************************************)
(* C18                                                                     *)
(***************************************************************************)
Completed == "Database migration completed successfully"

\* Statement n of the history is the final EnableForeignKeyChecks, failed
\* after every earlier statement succeeded.
FinalEnableFailed(n) ==
    /\ log[n].op = "Enable" /\ ~log[n].ok
    /\ \A m \in 1..(n - 1) : log[m].ok

\* C18: when the final EnableForeignKeyChecks fails after every table was
\* migrated, Migrate returns "failed to enable foreign key checks" (Failed,
\* not Done), no statement follows the failed one (no retry), the
\* destination still has its checks disabled and the completion message was
\* not logged; Migrate returns that error in no other case, and the
\* completion message is logged only in a run that ended Done with the
\* checks enabled.
C18_FinalEnableFailure ==
    /\ \A n \in 1..Len(log) : FinalEnableFailed(n) =>
         /\ pc = "Failed"
         /\ err = Errorf("failed to enable foreign key checks", "-", "exec")
         /\ i = Len(sortedTables) + 1
         /\ Range(sortedTables) \subseteq destTables
         /\ n = Len(log)
         /\ EnableCalls = 1
         /\ fkChecks = FALSE
         /\ Completed \notin Range(logged)
    /\ err.stage = "failed to enable foreign key checks" =>
         (Len(log) > 0 /\ FinalEnableFailed(Len(log)))
    /\ Completed \in Range(logged) => (pc = "Done" /\ fkChecks)

\* Three tables were migrated and the final Enable failed.
C18_Witness ==
    /\ pc = "Failed"
    /\ err.stage = "failed to enable foreign key checks"
    /\ Len(sortedTables) = 3
    /\ destTables = Names
    /\ \E t \in Names : destRows[t] # <<>>
    /\ ~fkChecks

(***************************************************************************)
(* C19                                                                     *)
(***************************************************************************)
\* The step in which the EnableForeignKeyChecks called after a failed
\* MigrateTable fails too.
BestEffortEnableFails ==
    /\ pc = "EnableAfterFail"
    /\ Len(log') = Len(log) + 1
    /\ log'[Len(log')].op = "Enable"
    /\ ~log'[Len(log')].ok

\* C19: when a table migration fails and the best-effort
\* EnableForeignKeyChecks that follows fails too, Migrate returns the
\* original table failure and the failure to re-enable is written to the
\* log: the step adds a message to what the logger was given.
C19_AsStated ==
    [][BestEffortEnableFails =>
         /\ pc' = "Failed"
         /\ err' = err
         /\ err'.stage = "migration failed for table"
         /\ Len(logged') > Len(logged)]_vars

\* What the code does keep of C19: the error returned is the table failure,
\* whatever the outcome of the best-effort EnableForeignKeyChecks.
C19_OriginalErrorReturned ==
    [][pc = "EnableAfterFail" =>
         /\ pc' = "Failed"
         /\ err' = err
         /\ err'.stage = "migration failed for table"]_vars

(***************************************************************************)
(* C20                                                                     *)
(***************************************************************************)
\* The statements that create a table, read its rows or insert them.
TableWork ==
    {"ShowCreate", "Create", "ShowColumns", "Count", "Prepare", "Select", "Scan", "Insert"}

\* C20: when DisableForeignKeyChecks fails, Migrate returns "failed to
\* disable foreign key checks" at once: the failed statement is the last
\* one issued, no table was created, no row was read or inserted, no
\* statement of a table migration was issued and EnableForeignKeyChecks was
\* never called; Migrate returns that error in no other case.
C20_DisableFailure ==
    /\ \A n \in 1..Len(log) : (log[n].op = "Disable" /\ ~log[n].ok) =>
         /\ pc = "Failed"
         /\ err = Errorf("failed to disable foreign key checks", "-", "exec")
         /\ n = Len(log)
         /\ i = 0
         /\ destTables = {}
         /\ \A t \in Names : destRows[t] = <<>>
         /\ \A m \in 1..Len(log) : log[m].op \notin TableWork
         /\ EnableCalls = 0
         /\ fkChecks
    /\ err.stage = "failed to disable foreign key checks" =>
         (Len(log) > 0 /\ log[Len(log)].op = "Disable" /\ ~log[Len(log)].ok)

\* DisableForeignKeyChecks failed with three tables waiting to be migrated.
C20_Witness ==
    /\ pc = "Failed"
    /\ err.stage = "failed to disable foreign key checks"
    /\ Len(sortedTables) = 3
    /\ log[Len(log)] = Stmt("dest", "Disable", "-", FALSE)
    /\ destTables = {}

(***************************************************************************)
(* The schema inspector when a result set ends on an iteration error.      *)
(* GetTables, GetTableColumns and GetTableForeignKeys loop on rows.Next()  *)
(* and return what they have collected without consulting rows.Err().      *)
(* The source lists at most two tables here.                               *)
(***************************************************************************)
\* A query in the history that returned a nil error after only n rows of
\* its result set had been delivered.
Partial(db, op, table, n) ==
    [db |-> db, op |-> op, table |-> table, ok |-> TRUE, read |-> n]

IsPartial(s) == "read" \in DOMAIN s

\* GetTables: rows.Next() fails after n of the rows of SHOW TABLES; the
\* names collected so far are returned with a nil error.
GetTablesIterErr ==
    /\ pc = "GetTables"
    /\ \E n \in 0..(Len(SourceTables) - 1) :
         /\ tables' = FilterSkip(SubSeq(SourceTables, 1, n), SkipTables)
         /\ log' = Append(log, Partial("src", "ShowTables", "-", n))
    /\ logged' = logged \o <<"Starting database migration", "Found tables to migrate",
                              "Analyzing table dependencies...">>
    /\ iterErr' = TRUE
    /\ pc' = "ForeignKeys"
    /\ UNCHANGED <<handles, run, toolVars, SkipTables, BatchSize, sortedTables, i, err, sortVars,
                   dataVars, dbVars, graph>>

\* GetTableForeignKeys(tables[fkIdx]): rows.Next() fails with at least one
\* row unread; the foreign keys collected so far are returned with a nil
\* error and the loop goes on with them.
ForeignKeysIterErr ==
    /\ pc = "ForeignKeys"
    /\ fkIdx <= Len(tables)
    /\ \E refs \in SeqsUpTo(Names, MaxFks - 1) :
         LET deps == Retain(refs, tables[fkIdx], tables)
         IN  /\ fks' = refs
             /\ dependencies' = [dependencies EXCEPT ![tables[fkIdx]] = deps]
             /\ graph' = [graph EXCEPT ![tables[fkIdx]] = Range(deps)]
             /\ log' = Append(log, Partial("src", "ForeignKeys", tables[fkIdx], Len(refs)))
    /\ fkIdx' = fkIdx + 1
    /\ iterErr' = TRUE
    /\ UNCHANGED <<handles, run, toolVars, logged, SkipTables, BatchSize, pc, tables, sortedTables, i, err,
                   visited, temp, result, k, stack, dataVars, dbVars>>

\* GetTableColumns: rows.Next() fails after n >= 1 of the rows of SHOW
\* COLUMNS; the names collected so far are returned with a nil error and
\* MigrateTableData builds its INSERT and SELECT from them.
ColumnsIterErr ==
    /\ pc = "Columns"
    /\ \E n \in 1..(Len(SourceColumns(tableName)) - 1) :
         /\ columns' = SubSeq(SourceColumns(tableName), 1, n)
         /\ log' = Append(log, Partial("src", "ShowColumns", tableName, n))
    /\ iterErr' = TRUE
    /\ pc' = "Count"
    /\ UNCHANGED <<handles, run, toolVars, logged, SkipTables, BatchSize, tables, sortedTables, i, err, sortVars,
                   totalRows, offset, migratedRows, page, stmtOpen, dbVars, graph>>

\* GetTableColumns: rows.Next() fails on the first row; columns is empty,
\* placeholders is "" and placeholders[:len(placeholders)-1] panics.
ColumnsIterErrPanic ==
    /\ pc = "Columns"
    /\ columns' = <<>>
    /\ log' = Append(log, Partial("src", "ShowColumns", tableName, 0))
    /\ iterErr' = TRUE
    /\ pc' = "Panic"
    /\ UNCHANGED <<handles, run, toolVars, logged, SkipTables, BatchSize, tables, sortedTables, i, err, sortVars,
                   totalRows, offset, migratedRows, page, stmtOpen, dbVars, graph>>

InspectInit ==
    /\ Init
    /\ SkipTables # {}

InspectNext ==
    \/ Next
    \/ GetTablesIterErr \/ ForeignKeysIterErr
    \/ ColumnsIterErr \/ ColumnsIterErrPanic

InspectSpec == InspectInit /\ [][InspectNext]_vars

\* Every database call returns: the run takes its next step.
FairInspectSpec == InspectSpec /\ WF_vars(InspectNext)

(***************************************************************************)
(* C22                                                                     *)
(***************************************************************************)
\* The queries of the schema inspector.
InspectorOps == {"ShowTables", "ShowColumns", "ForeignKeys", "ShowCreate", "Count"}

\* Statement n of the history is an inspector query that returned an error:
\* nothing follows it but the best-effort EnableForeignKeyChecks (so it is
\* not retried) and Migrate is returning, or has returned, an error.
FatalAt(n) ==
    /\ \A m \in (n + 1)..Len(log) : log[m].op = "Enable"
    /\ Len(log) <= n + 1
    /\ pc \in {"EnableAfterFail", "Failed"}
    /\ err # NoErr

\* C22: every query error of the schema inspector is fatal to the run,
\* whether the query fails when issued or its result set ends on an
\* iteration error: no inspector query returns a nil error with a partial
\* result, and one that returned an error is the last query of the run,
\* which ends in Failed.
C22_AsStated ==
    \A n \in 1..Len(log) : log[n].op \in InspectorOps =>
        /\ ~IsPartial(log[n])
        /\ ~log[n].ok => FatalAt(n)

\* What the code does keep of C22: an inspector query whose error is
\* reported (the query failing when issued, or Scan failing) is fatal.
C22_ReportedErrorsFatal ==
    \A n \in 1..Len(log) :
        (log[n].op \in InspectorOps /\ ~log[n].ok) => FatalAt(n)

(***************************************************************************)
(* C21                                                                     *)
(***************************************************************************)
\* GetTables has returned a list and a nil error.
GetTablesReturned == pc # "GetTables" /\ err.stage # "failed to get tables"

\* No statement of the run names a table of the skip list, and the
\* destination holds nothing of such a table.
SkippedUntouched ==
    /\ \A n \in 1..Len(log) : log[n].table \notin SkipTables
    /\ destTables \cap SkipTables = {}
    /\ \A t \in SkipTables : destRows[t] = <<>>
    /\ Range(tables) \cap SkipTables = {}
    /\ Range(sortedTables) \cap SkipTables = {}

\* C21: the list GetTables returns is exactly the source tables whose name
\* is not in SkipTables, in the source's enumeration order; and in every run
\* of Migrate no table of SkipTables is queried for foreign keys, created on
\* the destination, read or written.
C21_AsStated ==
    /\ GetTablesReturned => tables = FilterSkip(SourceTables, SkipTables)
    /\ SkippedUntouched

\* What the code does keep of C21: the list returned is the tables not in
\* SkipTables among the rows of SHOW TABLES that were delivered, in the
\* source's enumeration order (all of them when no iteration error ended the
\* result set), and no table of SkipTables is ever touched.
C21_DeliveredRowsFiltered ==
    /\ GetTablesReturned =>
         \E n \in 0..Len(SourceTables) :
            /\ tables = FilterSkip(SubSeq(SourceTables, 1, n), SkipTables)
            /\ log[1] = Stmt("src", "ShowTables", "-", TRUE) => n = Len(SourceTables)
    /\ SkippedUntouched

(***************************************************************************)
(* Two runs of the program against the same destination.  Nothing of a     *)
(* run is kept but what it left on the destination: there is no           *)
(* checkpoint.  The source lists at most two tables here.                  *)
(***************************************************************************)
MaxRuns == 2

\* The program is started again after Migrate returned: a new process with
\* new connections (FOREIGN_KEY_CHECKS is a session variable, 1 by
\* default), the same configuration, and the destination as it was left.
Restart ==
    /\ pc \in {"Done", "Failed"}
    /\ run < MaxRuns
    /\ run' = run + 1
    /\ pc' = "GetTables"
    /\ tables' = <<>>
    /\ sortedTables' = <<>>
    /\ i' = 0
    /\ err' = NoErr
    /\ SortLocalsDiscarded
    /\ columns' = <<>>
    /\ totalRows' = 0
    /\ offset' = 0
    /\ migratedRows' = 0
    /\ page' = <<>>
    /\ stmtOpen' = FALSE
    /\ srcCount' = [t \in Names |-> 0]
    /\ fkChecks' = TRUE
    /\ logged' = <<>>
    /\ graph' = [t \in Names |-> {}]
    /\ log' = <<>>
    /\ iterErr' = FALSE
    /\ UNCHANGED <<handles, toolVars, SkipTables, BatchSize, destTables, destRows>>

RerunInit ==
    /\ Init
    /\ SkipTables # {}

RerunNext == Next \/ Restart

RerunSpec == RerunInit /\ [][RerunNext]_vars

(***************************************************************************)
(* C23                                                                     *)
(***************************************************************************)
\* No CREATE TABLE of this run has succeeded.
NothingCreated == \A n \in 1..Len(log) : log[n].op = "Create" => ~log[n].ok

\* A later run has sorted its tables and the first of them is on the
\* destination already, left there by an earlier run.
FirstTableExists ==
    /\ run >= 2
    /\ pc \notin {"GetTables", "ForeignKeys", "Visit", "Done", "Failed"}
    /\ Len(sortedTables) >= 1
    /\ sortedTables[1] \in destTables
    /\ NothingCreated

DuplicateTable(t) == Errorf("migration failed for table", t, "failed to create table")

\* C23: the second run starts again from the first table, whatever the
\* first run left (Restart keeps nothing but the destination).  When the
\* first table of its sorted order is on the destination already, no step of
\* the second run changes the tables or the rows of the destination or goes
\* past the first table; its CREATE TABLE fails and Migrate keeps the error
\* of that table, then calls EnableForeignKeyChecks, which makes exactly one
\* call in the run, and returns the error.
C23_RerunFailsAtFirstTable ==
    [][FirstTableExists =>
         /\ destTables' = destTables
         /\ destRows' = destRows
         /\ i' <= 1
         /\ pc' \notin {"Columns", "Count", "Prepare", "Page", "Rows", "Enable", "Done"}
         /\ \A n \in 1..Len(log') : log'[n].op \notin {"Prepare", "Select", "Scan", "Insert"}
         /\ pc = "Create" =>
              /\ pc' = "EnableAfterFail"
              /\ err' = DuplicateTable(sortedTables[1])
              /\ log'[Len(log')] = Stmt("dest", "Create", sortedTables[1], FALSE)
         /\ pc = "EnableAfterFail" =>
              /\ pc' = "Failed"
              /\ err' = err
              /\ Cardinality({n \in 1..Len(log') : log'[n].op = "Enable"}) = 1]_vars

\* The first run migrated two tables with rows; the second run failed on
\* the CREATE TABLE of its first table and called Enable once.
C23_Witness ==
    /\ run = 2
    /\ pc = "Failed"
    /\ Len(sortedTables) = 2
    /\ \A n \in 1..2 : destRows[sortedTables[n]] # <<>>
    /\ err = DuplicateTable(sortedTables[1])
    /\ NothingCreated
    /\ EnableCalls = 1

(***************************************************************************)
(* C24                                                                     *)
(***************************************************************************)
\* The positions of the history at which the insert statement of table t
\* was prepared (successfully or not).
Prepares(t) == {n \in 1..Len(log) : log[n].op = "Prepare" /\ log[n].table = t}

\* MigrateTableData of the table at position p of the sorted order has
\* returned nil.
DataMoved(p) == p < i \/ (p = i /\ pc \in {"Enable", "Done"})

\* C24: the insert statement is open only while MigrateTableData is in its
\* paging loop for the current table, so a statement is prepared only when
\* none is open, none is open at any step of the next table, at either
\* EnableForeignKeyChecks or when Migrate has returned; and it is prepared
\* at most once per table, exactly once for every table with rows whose
\* data migration has returned nil, never for an empty table, and before
\* every page query and insert of the table.
C24_StatementScoped ==
    /\ stmtOpen => (pc \in {"Page", "Rows"} /\ i \in 1..Len(sortedTables))
    /\ stmtOpen =>
         /\ Prepares(sortedTables[i]) # {}
         /\ \A n \in Prepares(sortedTables[i]) : log[n].ok
    /\ \A t \in Names : Cardinality(Prepares(t)) <= 1
    /\ \A p \in 1..Len(sortedTables) : DataMoved(p) =>
         (Cardinality(Prepares(sortedTables[p])) = IF srcCount[sortedTables[p]] > 0 THEN 1 ELSE 0)
    /\ \A n \in 1..Len(log) : log[n].op \in {"Select", "Insert"} =>
         \E m \in Prepares(log[n].table) : m < n /\ log[m].ok

\* A first table with rows was migrated; the statement of the second table
\* was prepared and closed again when its insert failed, and Migrate has
\* returned.
C24_Witness ==
    /\ pc = "Failed"
    /\ ~stmtOpen
    /\ Len(sortedTables) >= 2
    /\ i = 2
    /\ Prepares(sortedTables[1]) # {}
    /\ Prepares(sortedTables[2]) # {}
    /\ err.cause = "failed to insert row"

(***************************************************************************)
(* src/json/json.go: runMigration, previewMigration, performMigration      *)
(***************************************************************************)
\* Bounds: the documents of the collection of a real run and of a dry run
\* (more than the 5 the preview is limited to), and config.BatchSize.
JMaxDocs == 3
PreviewMaxDocs == 6
JMaxBatch == 2

\* SetLimit(5) of previewMigration.
PreviewLimit == 5

\* The migration of src/migrate/migrate.go is not running.
MigrateIdle ==
    /\ handles = NoHandles
    /\ run = 1
    /\ logged = <<>>
    /\ SkipTables = {}
    /\ BatchSize = 1
    /\ pc = "Idle"
    /\ tables = <<>>
    /\ sortedTables = <<>>
    /\ i = 0
    /\ err = NoErr
    /\ SortLocalsInit
    /\ DataLocalsInit
    /\ srcCount = [t \in Names |-> 0]
    /\ fkChecks = TRUE
    /\ destTables = {}
    /\ destRows = EmptyMap
    /\ graph = [t \in Names |-> {}]
    /\ log = <<>>
    /\ iterErr = FALSE

\* BSON values of the field: a string, an embedded document, null.
JString(s) == [type |-> "string", s |-> s]

JObject == [type |-> "object"]

JNull == [type |-> "null"]

\* The strings the field holds at the start: the empty string, a text that
\* is not JSON, and the JSON text of an object.
Contents == {"", "{x", "{}"}

\* json.Unmarshal([]byte(s), &jsonObj) returns nil.
ValidJSON(s) == s = "{}"

\* The value json.Unmarshal stores for a valid text.
Unmarshal(s) == JObject

\* filter: {FieldName: {$type: "string", $ne: ""}}.
Matches(doc) == doc.Content.type = "string" /\ doc.Content.s # ""

\* The _ids of the documents matching the filter, in natural order.
Matching == SelectSeq([n \in 1..Len(collection) |-> n], LAMBDA id : Matches(collection[id]))

\* The first n elements of s.
Take(s, n) == SubSeq(s, 1, Min(n, Len(s)))

\* The elements of s after the first n.
Drop(s, n) == SubSeq(s, Min(n, Len(s)) + 1, Len(s))

\* runMigration returns e.
JReturn(e) ==
    /\ jerr' = e
    /\ jpc' = "Returned"

JsonInit ==
    /\ MigrateIdle
    /\ CleanIdle
    /\ ConvIdle
    /\ config \in [DryRun : BOOLEAN, BatchSize : 1..JMaxBatch, NewFieldName : {"", "Parsed"}]
    /\ config.DryRun => (config.BatchSize = 1 /\ config.NewFieldName = "")
    /\ \E n \in 0..(IF config.DryRun THEN PreviewMaxDocs ELSE JMaxDocs) :
         collection \in [1..n -> {[Content |-> JString(s)] : s \in Contents}]
    /\ jpc = "Connect"
    /\ jerr = "nil"
    /\ cursor = <<>>
    /\ printed = <<>>
    /\ pipeline = LimitStage(config.BatchSize)
    /\ processed = 0
    /\ successful = 0
    /\ failed = 0
    /\ batchProcessed = 0
    /\ bulkOps = <<>>
    /\ ops = <<>>

\* mongo.Connect and client.Ping.
ConnectOk ==
    /\ jpc = "Connect"
    /\ jpc' = "Count"
    /\ UNCHANGED <<migrateVars, cleanVars, convVars, config, collection, jerr, cursor, printed, pipeline,
                   processed, successful, failed, batchProcessed, bulkOps, ops>>

ConnectFail ==
    /\ jpc = "Connect"
    /\ \E e \in {"failed to connect to MongoDB", "failed to ping MongoDB"} : JReturn(e)
    /\ UNCHANGED <<migrateVars, cleanVars, convVars, config, collection, cursor, printed, pipeline,
                   processed, successful, failed, batchProcessed, bulkOps, ops>>

\* The branch after CountDocuments without the test of config.DryRun.
AfterCountIgnoringDryRun ==
    IF Matching = <<>> THEN JReturn("nil")
    ELSE /\ jerr' = jerr
         /\ jpc' = "Aggregate"

\* The branch after CountDocuments: nothing to do, the preview, or the
\* migration.
AfterCount ==
    IF Matching = <<>> THEN JReturn("nil")
    ELSE /\ jerr' = jerr
         /\ jpc' = IF config.DryRun THEN "Find" ELSE "Aggregate"

\* collection.CountDocuments(ctx, filter) and the branch on its result.
CountDocumentsOk ==
    /\ jpc = "Count"
    /\ ops' = Append(ops, [op |-> "CountDocuments", ok |-> TRUE])
    /\ AfterCount
    /\ UNCHANGED <<migrateVars, cleanVars, convVars, config, collection, cursor, printed, pipeline,
                   processed, successful, failed, batchProcessed, bulkOps>>

CountDocumentsFail ==
    /\ jpc = "Count"
    /\ ops' = Append(ops, [op |-> "CountDocuments", ok |-> FALSE])
    /\ JReturn("failed to count documents")
    /\ UNCHANGED <<migrateVars, cleanVars, convVars, config, collection, cursor, printed, pipeline,
                   processed, successful, failed, batchProcessed, bulkOps>>

(***************************************************************************)
(* previewMigration                                                        *)
(***************************************************************************)
\* collection.Find(ctx, filter, options.Find().SetLimit(5)).
FindOk ==
    /\ jpc = "Find"
    /\ cursor' = Take(Matching, PreviewLimit)
    /\ ops' = Append(ops, [op |-> "Find", ok |-> TRUE, limit |-> PreviewLimit])
    /\ jpc' = "Preview"
    /\ UNCHANGED <<migrateVars, cleanVars, convVars, config, collection, jerr, printed, pipeline,
                   processed, successful, failed, batchProcessed, bulkOps>>

FindFail ==
    /\ jpc = "Find"
    /\ ops' = Append(ops, [op |-> "Find", ok |-> FALSE, limit |-> PreviewLimit])
    /\ JReturn("failed to find documents")
    /\ UNCHANGED <<migrateVars, cleanVars, convVars, config, collection, cursor, printed, pipeline,
                   processed, successful, failed, batchProcessed, bulkOps>>

\* cursor.Next delivers a document and it is printed, with the verdict of
\* json.Unmarshal on its field.
PreviewDoc ==
    /\ jpc = "Preview"
    /\ cursor # <<>>
    /\ printed' = Append(printed, [id |-> Head(cursor),
                                   valid |-> ValidJSON(collection[Head(cursor)].Content.s)])
    /\ cursor' = Tail(cursor)
    /\ UNCHANGED <<migrateVars, cleanVars, convVars, config, collection, jpc, jerr, pipeline,
                   processed, successful, failed, batchProcessed, bulkOps, ops>>

\* cursor.Decode fails: "Failed to decode document", continue.
PreviewDecodeFail ==
    /\ jpc = "Preview"
    /\ cursor # <<>>
    /\ cursor' = Tail(cursor)
    /\ UNCHANGED <<migrateVars, cleanVars, convVars, config, collection, jpc, jerr, printed, pipeline,
                   processed, successful, failed, batchProcessed, bulkOps, ops>>

\* cursor.Next is false, at the end of the cursor or on an error of the
\* cursor (cursor.Err is not consulted): cursor.Close, return nil.
PreviewEnd ==
    /\ jpc = "Preview"
    /\ cursor' = <<>>
    /\ JReturn("nil")
    /\ UNCHANGED <<migrateVars, cleanVars, convVars, config, collection, printed, pipeline,
                   processed, successful, failed, batchProcessed, bulkOps, ops>>

(***************************************************************************)
(* performMigration                                                        *)
(***************************************************************************)
\* The stage pipeline[1] is replaced by after a full batch.
SkipStage(n) == [stage |-> "$skip", n |-> n]

\* The _ids collection.Aggregate(ctx, pipeline) delivers: the matching
\* documents, limited or skipped by the second stage.
Aggregate(stage) ==
    IF stage.stage = "$limit" THEN Take(Matching, stage.n) ELSE Drop(Matching, stage.n)

\* processDocument: the document of "$set" for a field holding the JSON
\* text s; with a NewFieldName the old field is set to nil.
UpdateDoc(s) ==
    IF config.NewFieldName = "" \/ config.NewFieldName = "Content"
    THEN [Content |-> Unmarshal(s)]
    ELSE [Parsed |-> Unmarshal(s), Content |-> JNull]

\* {"$set": set} applied to a document.
ApplySet(doc, set) ==
    [f \in DOMAIN doc \cup DOMAIN set |-> IF f \in DOMAIN set THEN set[f] ELSE doc[f]]

\* The collection after the first n update models of bulkOps.
Written(n) ==
    [id \in 1..Len(collection) |->
        IF \E p \in 1..n : bulkOps[p].id = id
        THEN ApplySet(collection[id], bulkOps[CHOOSE p \in 1..n : bulkOps[p].id = id].set)
        ELSE collection[id]]

AggregateOk ==
    /\ jpc = "Aggregate"
    /\ cursor' = Aggregate(pipeline)
    /\ batchProcessed' = 0
    /\ bulkOps' = <<>>
    /\ ops' = Append(ops, [op |-> "Aggregate", ok |-> TRUE, stage |-> pipeline])
    /\ jpc' = "Batch"
    /\ UNCHANGED <<migrateVars, cleanVars, convVars, config, collection, jerr, printed, pipeline,
                   processed, successful, failed>>

AggregateFail ==
    /\ jpc = "Aggregate"
    /\ ops' = Append(ops, [op |-> "Aggregate", ok |-> FALSE, stage |-> pipeline])
    /\ JReturn("failed to create aggregation cursor")
    /\ UNCHANGED <<migrateVars, cleanVars, convVars, config, collection, cursor, printed, pipeline,
                   processed, successful, failed, batchProcessed, bulkOps>>

\* cursor.Decode fails: failed++, continue.
BatchDecodeFail ==
    /\ jpc = "Batch"
    /\ cursor # <<>>
    /\ failed' = failed + 1
    /\ cursor' = Tail(cursor)
    /\ ops' = Append(ops, [op |-> "Decode", ok |-> FALSE])
    /\ UNCHANGED <<migrateVars, cleanVars, convVars, config, collection, jpc, jerr, printed, pipeline,
                   processed, successful, batchProcessed, bulkOps>>

\* processDocument returns an error (the field is not a string, or its
\* text is not JSON): failed++, continue.
BatchInvalid ==
    /\ jpc = "Batch"
    /\ cursor # <<>>
    /\ LET v == collection[Head(cursor)].Content
       IN  v.type # "string" \/ ~ValidJSON(v.s)
    /\ failed' = failed + 1
    /\ cursor' = Tail(cursor)
    /\ UNCHANGED <<migrateVars, cleanVars, convVars, config, collection, jpc, jerr, printed, pipeline,
                   processed, successful, batchProcessed, bulkOps, ops>>

\* processDocument returns the update: an UpdateOne model joins bulkOps.
BatchUpdate ==
    /\ jpc = "Batch"
    /\ cursor # <<>>
    /\ LET v == collection[Head(cursor)].Content
       IN  /\ v.type = "string" /\ ValidJSON(v.s)
           /\ bulkOps' = Append(bulkOps, [id |-> Head(cursor), set |-> UpdateDoc(v.s)])
    /\ batchProcessed' = batchProcessed + 1
    /\ cursor' = Tail(cursor)
    /\ UNCHANGED <<migrateVars, cleanVars, convVars, config, collection, jpc, jerr, printed, pipeline,
                   processed, successful, failed, ops>>

\* cursor.Next is false, at the end of the cursor (ok) or on an error of
\* the cursor (cursor.Err is not consulted): cursor.Close.
BatchEnd ==
    /\ jpc = "Batch"
    /\ cursor' = <<>>
    /\ ops' = Append(ops, [op |-> "Next", ok |-> cursor = <<>>])
    /\ jpc' = "Bulk"
    /\ UNCHANGED <<migrateVars, cleanVars, convVars, config, collection, jerr, printed, pipeline,
                   processed, successful, failed, batchProcessed, bulkOps>>

\* processed += batchProcessed, then the loop test: break and return nil,
\* or pipeline[1] = {"$skip": processed} and the next batch.
EndOfBatch ==
    /\ processed' = processed + batchProcessed
    /\ IF batchProcessed < config.BatchSize
       THEN /\ JReturn("nil")
            /\ pipeline' = pipeline
       ELSE /\ pipeline' = SkipStage(processed + batchProcessed)
            /\ jpc' = "Aggregate"
            /\ jerr' = jerr

\* len(bulkOps) = 0: no BulkWrite.
BulkNone ==
    /\ jpc = "Bulk"
    /\ bulkOps = <<>>
    /\ EndOfBatch
    /\ UNCHANGED <<migrateVars, cleanVars, convVars, config, collection, cursor, printed,
                   successful, failed, batchProcessed, bulkOps, ops>>

\* collection.BulkWrite(ctx, bulkOps) succeeds: every update is applied.
BulkWriteOk ==
    /\ jpc = "Bulk"
    /\ bulkOps # <<>>
    /\ collection' = Written(Len(bulkOps))
    /\ successful' = successful + Len(bulkOps)
    /\ ops' = Append(ops, [op |-> "BulkWrite", ok |-> TRUE, n |-> Len(bulkOps)])
    /\ EndOfBatch
    /\ UNCHANGED <<migrateVars, cleanVars, convVars, config, cursor, printed, failed, batchProcessed, bulkOps>>

\* collection.BulkWrite fails (an ordered bulk write: the updates before
\* the failing one are applied): "Bulk write failed", failed += batchProcessed.
BulkWriteFail ==
    /\ jpc = "Bulk"
    /\ bulkOps # <<>>
    /\ \E n \in 0..(Len(bulkOps) - 1) :
         /\ collection' = Written(n)
         /\ ops' = Append(ops, [op |-> "BulkWrite", ok |-> FALSE, n |-> n])
    /\ failed' = failed + batchProcessed
    /\ EndOfBatch
    /\ UNCHANGED <<migrateVars, cleanVars, convVars, config, cursor, printed, successful, batchProcessed, bulkOps>>

JsonNext ==
    \/ ConnectOk \/ ConnectFail \/ CountDocumentsOk \/ CountDocumentsFail
    \/ FindOk \/ FindFail \/ PreviewDoc \/ PreviewDecodeFail \/ PreviewEnd
    \/ AggregateOk \/ AggregateFail
    \/ BatchDecodeFail \/ BatchInvalid \/ BatchUpdate \/ BatchEnd
    \/ BulkNone \/ BulkWriteOk \/ BulkWriteFail

JsonSpec == JsonInit /\ [][JsonNext]_vars

(***************************************************************************)
(* C25                                                                     *)
(***************************************************************************)
\* The documents printed are the leading matching documents the cursor
\* delivered, each once and in order.
PrintedFromMatching ==
    /\ \A p \in 1..Len(printed) : Matches(collection[printed[p].id])
    /\ \A p, q \in 1..Len(printed) : p < q => printed[p].id < printed[q].id
    /\ \A p \in 1..Len(printed) :
         \E q \in 1..Min(PreviewLimit, Len(Matching)) : Matching[q] = printed[p].id

\* C25: with DryRun set no step of runMigration changes the collection, the
\* only operations issued on it are CountDocuments and a Find limited to 5,
\* no update model is ever built, and at most 5 documents, all matching the
\* filter, are previewed, whether their field holds valid JSON or not.
C25_DryRunChangesNothing ==
    /\ [][config.DryRun => collection' = collection]_vars
    /\ [](config.DryRun =>
            /\ \A n \in 1..Len(ops) : ops[n].op \in {"CountDocuments", "Find"}
            /\ \A n \in 1..Len(ops) : ops[n].op = "Find" => ops[n].limit = PreviewLimit
            /\ bulkOps = <<>>
            /\ jpc \notin {"Aggregate", "Batch", "Bulk"}
            /\ Len(printed) <= PreviewLimit
            /\ PrintedFromMatching)

\* A dry run on six matching documents, one of them not JSON, has returned
\* after previewing five.
C25_Witness ==
    /\ config.DryRun
    /\ jpc = "Returned"
    /\ jerr = "nil"
    /\ Len(Matching) = 6
    /\ Len(printed) = PreviewLimit
    /\ \E p \in 1..Len(printed) : ~printed[p].valid
    /\ \E p \in 1..Len(printed) : printed[p].valid

(***************************************************************************)
(* C26                                                                     *)
(***************************************************************************)
\* Table a reaches a cycle of g without lying on one.
LeadsIntoCycle(g, a) ==
    /\ ~OnCycle(g, a)
    /\ \E b \in Reachable(g, a) : OnCycle(g, b)

\* C26: the table a circular-dependency error names reaches itself through
\* one or more retained dependency edges; it is never a table that only
\* leads into a cycle.
C26_NamedTableOnCycle ==
    CycleError =>
        /\ err.table \in Range(tables)
        /\ OnCycle(graph, err.table)
        /\ ~LeadsIntoCycle(graph, err.table)

\* The sort failed on a list whose first table only leads into the cycle
\* of the two others: it was in progress when the cycle was found.
C26_Witness ==
    /\ CycleError
    /\ Len(tables) = 3
    /\ LeadsIntoCycle(graph, tables[1])
    /\ err.table # tables[1]

(***************************************************************************)
(* C27                                                                     *)
(***************************************************************************)
\* The row numbers of the page at the current offset.
Window == (offset + 1)..(offset + BatchSize)

\* The row numbers of that page the destination holds.
WrittenOfPage ==
    {destRows[sortedTables[1]][p]["Id"].n : p \in 1..Len(destRows[sortedTables[1]])} \cap Window

\* The row numbers of that page rows.Next has not delivered yet.
UnreadOfPage == {page[q]["Id"].n : q \in 1..Len(page)}

\* MigrateTableData failed on rows.Scan, inside the page at the current offset.
ReadErrorInPage ==
    /\ pc \in {"EnableAfterFail", "Failed"}
    /\ err.cause = "failed to scan row"

\* C27 as stated: while rows of a page remain to be read no row of that
\* page is on the destination, and after a read error inside a page no row
\* of that page is on the destination.
C27_AsStated ==
    /\ (pc = "Rows" /\ page # <<>>) => WrittenOfPage = {}
    /\ ReadErrorInPage => WrittenOfPage = {}

\* C27, amended: the rows of a page are streamed.  Every insert is issued
\* right after the Scan of the same row, with the values of that Scan
\* processed, so each row is read before it is written and written before
\* the next row of the page is read; while a page is open the destination
\* holds exactly the rows of the page delivered so far; and after a read
\* error inside a page it holds the rows of that page inserted before the
\* failing row.
C27_RowByRow ==
    LET t == sortedTables[1]
    IN  /\ \A n \in 1..Len(log) : log[n].op = "Insert" =>
             /\ n > 1
             /\ log[n - 1].op = "Scan" /\ log[n - 1].ok
             /\ log[n].values = ProcessValues(t, columns, log[n - 1].values)
        /\ \A n \in 1..Len(log) : (log[n].op = "Scan" /\ log[n].ok) =>
             (n < Len(log) /\ log[n + 1].op = "Insert")
        /\ (pc = "Rows" /\ \A n \in 1..Len(log) : log[n].ok) =>
             WrittenOfPage = ((offset + 1)..Min(offset + BatchSize, srcCount[t])) \ UnreadOfPage
        /\ (ReadErrorInPage /\ Len(Reads) > 0) =>
             Cardinality(WrittenOfPage) = RowsOfRead(Len(Reads))

\* A read error in the second page, after a row of that page was inserted.
C27_Witness ==
    /\ ReadErrorInPage
    /\ offset >= BatchSize
    /\ Len(Reads) = 2
    /\ WrittenOfPage # {}
    /\ Cardinality(WrittenOfPage) < BatchSize

(***************************************************************************)
(* C28                                                                     *)
(***************************************************************************)
\* The row count was fetched once.
CountedOnce == Cardinality({n \in 1..Len(log) : log[n].op = "Count"}) = 1

\* C28: whatever the pages return (the source may hold fewer rows than
\* were counted, and a result set may end on an iteration error), page
\* read number n is at offset (n - 1) * BatchSize with limit BatchSize, so
\* the offset advances by exactly BatchSize per page and no page is read
\* twice; at the loop test the offset is the number of pages read times
\* BatchSize; a page is read only at an offset below total; and
\* MigrateTableData returns nil exactly at the first such offset at or above
\* total, after ceil(total / BatchSize) reads, total being counted once.
C28_OffsetAdvance ==
    /\ CountedOnce
    /\ \A n \in 1..Len(Reads) :
         /\ Reads[n].off = (n - 1) * BatchSize
         /\ Reads[n].limit = BatchSize
         /\ Reads[n].off < totalRows
    /\ pc = "Rows" => offset = (Len(Reads) - 1) * BatchSize
    /\ pc = "Page" => (offset = Len(Reads) * BatchSize /\ offset < totalRows)
    /\ DataReturnedNil =>
         /\ offset = Len(Reads) * BatchSize
         /\ offset >= totalRows
         /\ offset - BatchSize < totalRows
         /\ Len(Reads) = Ceil(totalRows, BatchSize)

\* Five rows counted, one row left in the source, BatchSize 2: a short
\* page and two empty ones were read, and MigrateTableData returned nil.
C28_Witness ==
    /\ DataReturnedNil
    /\ ~iterErr
    /\ totalRows = 5 /\ BatchSize = 2
    /\ srcCount[sortedTables[1]] = 1
    /\ Len(Reads) = 3
    /\ RowsOfRead(1) = 1 /\ RowsOfRead(2) = 0 /\ RowsOfRead(3) = 0
    /\ offset = 6

(***************************************************************************)
(* C29                                                                     *)
(***************************************************************************)
\* order holds every table of tbls exactly once and nothing else.
IsPermutation(order, tbls) ==
    /\ Len(order) = Len(tbls)
    /\ Range(order) = Range(tbls)
    /\ \A m, n \in 1..Len(order) : order[m] = order[n] => m = n

RECURSIVE Collapse(_)
\* list with only the first occurrence of each table kept.
Collapse(list) ==
    IF list = <<>> THEN <<>>
    ELSE LET front == Collapse(SubSeq(list, 1, Len(list) - 1))
         IN  IF list[Len(list)] \in Range(front) THEN front
             ELSE Append(front, list[Len(list)])

RECURSIVE DepthFirst(_, _, _, _)
\* The depth-first order of an acyclic dependency function d, continued
\* from the tables done so far with the tables of list from position n on.
DepthFirst(d, list, n, done) ==
    IF n > Len(list) THEN done
    ELSE IF list[n] \in Range(done) THEN DepthFirst(d, list, n + 1, done)
    ELSE DepthFirst(d, list, n + 1,
                    Append(DepthFirst(d, d[list[n]], 1, done), list[n]))

\* The final loop of the sort is over and no error was raised: the sort
\* is about to return result.
SortSucceeds == pc = "Visit" /\ stack = <<>> /\ k > Len(tables)

\* Some table has two foreign keys to the same other table of the list.
DuplicateDependency ==
    \E t \in Range(tables) :
        Len(dependencies[t]) > Cardinality(Range(dependencies[t]))

\* C29: when the sort succeeds, its result is a permutation of the input
\* list, and it is the depth-first order of the dependencies with every
\* repeated dependency collapsed to its first occurrence; the value Migrate
\* receives is that permutation.
C29_Permutation ==
    /\ SortSucceeds =>
         /\ IsPermutation(result, tables)
         /\ result = DepthFirst([t \in Names |-> Collapse(dependencies[t])],
                                tables, 1, <<>>)
    /\ (SortReturned /\ ~SortFailed) => IsPermutation(sortedTables, tables)

\* The sort succeeds on two or more tables, one of which has two foreign
\* keys to the same table.
C29_Witness ==
    /\ SortSucceeds
    /\ Len(tables) >= 2
    /\ DuplicateDependency
    /\ \E t \in Range(tables) : dependencies[t] = <<tables[2], tables[2]>>

(***************************************************************************)
(* C30                                                                     *)
(***************************************************************************)
\* The frames of the recursion that are past the two tests of visit: the
\* calls that have set temp and are in, or after, their dependency loop.
Entered == {n \in 1..Len(stack) : stack[n].j >= 1}

\* The colours at one step of the sort: no table is in progress and done;
\* the tables in progress are the tables of the entered frames, each once;
\* every frame but the outermost is the call its caller made for the
\* dependency it is at; only the innermost frame can be at the tests; the
\* done tables are the tables of result, each once, every one behind all
\* its dependencies.
Colours ==
    /\ temp \cap visited = {}
    /\ temp = {stack[n].t : n \in Entered}
    /\ \A m, n \in Entered : stack[m].t = stack[n].t => m = n
    /\ \A n \in 1..(Len(stack) - 1) :
         /\ n \in Entered
         /\ stack[n].j >= 2
         /\ stack[n].j - 1 <= Len(DepsOf(stack[n].t))
         /\ stack[n + 1].t = DepsOf(stack[n].t)[stack[n].j - 1]
    /\ Range(result) = visited
    /\ \A m, n \in 1..Len(result) : result[m] = result[n] => m = n
    /\ \A n \in 1..Len(result) :
         Range(DepsOf(result[n])) \subseteq EmittedBefore(result, n)

\* One step of the sort: done tables stay done and result only grows at
\* its end; a table turns done exactly in the step that appends it, it was
\* in progress until then, and all its dependencies were done and in
\* result before; a table that turns in progress was not done.
ColourStep ==
    (pc = "Visit" /\ pc' = "Visit") =>
        /\ visited \subseteq visited'
        /\ Len(result) <= Len(result')
        /\ SubSeq(result', 1, Len(result)) = result
        /\ (visited' # visited \/ result' # result) =>
             /\ stack # <<>>
             /\ Top.t \in temp \ visited
             /\ Top.t \notin temp'
             /\ visited' = visited \cup {Top.t}
             /\ result' = Append(result, Top.t)
             /\ \A d \in Range(DepsOf(Top.t)) :
                  d \in visited /\ IndexOf(result, d) > 0
        /\ \A t \in temp' \ temp : t \notin visited /\ t \notin visited'

\* C30: the three-colour invariant of the sort holds at every step, and
\* every step changes the colours as the claim says.
C30_ThreeColours == [](pc = "Visit" => Colours) /\ [][ColourStep]_vars

\* A recursion path of two tables in progress whose inner table has just
\* called visit for a table that is already done.
C30_Witness ==
    /\ pc = "Visit"
    /\ Len(stack) = 3
    /\ Entered = {1, 2}
    /\ temp = {stack[1].t, stack[2].t}
    /\ Top.t \in visited
    /\ result = <<Top.t>>

(***************************************************************************)
(* C31                                                                     *)
(***************************************************************************)
\* The count of migrated rows as the claim has it on an unchanging source:
\* never above total, min(offset, total) after each page, total when
\* MigrateTableData has returned nil (progress 100 percent).
ProgressExact ==
    /\ migratedRows <= totalRows
    /\ (pc = "Page" \/ DataReturnedNil) => migratedRows = Min(offset, totalRows)
    /\ DataReturnedNil => migratedRows = totalRows

\* C31 as stated: on an unchanging source the progress is exact in every
\* state.
C31_AsStated == Unchanging => ProgressExact

\* C31 on the runs in which no row iteration ended on an unreported error:
\* there the progress is exact.
C31_WithoutIterationError == (Unchanging /\ ~iterErr) => ProgressExact

\* C31, the termination part: the paging loop ends, and the offset grows
\* with every page.
C31_Terminates == <>(pc \in Terminal)

C31_OffsetGrows == [][offset' # offset => (offset' > offset \/ offset' = 0)]_vars

(***************************************************************************)
(* src/unnamed/part_000: cleanInvalidUserAssignments                       *)
(***************************************************************************)
\* The most rows AspNetUsers holds.
MaxUsers == 2
\* The most documents ItemAssignmentData holds.
MaxAssignments == 2

\* The Id strings, named by numbers: one more than there can be users.
UserIds == 1..(MaxUsers + 1)

\* The values of the field UserId: a string, or something else.
UserIdValues == {JString(u) : u \in UserIds} \cup {JNull}

\* A document but for its name: idType is the type of its _id.
AssignmentShapes == [idType : {"objectID", "string"}, UserId : UserIdValues]

\* The collections of up to MaxAssignments documents, named 1, 2, ...
AssignmentCollections ==
    UNION {{{[n |-> j, idType |-> f[j].idType, UserId |-> f[j].UserId] : j \in 1..m} :
               f \in [1..m -> AssignmentShapes]} : m \in 0..MaxAssignments}

\* The documents of the set S in their natural order.
InOrder(S) ==
    [p \in 1..Cardinality(S) |->
        CHOOSE d \in S : Cardinality({e \in S : e.n < d.n}) = p - 1]

CleanInit ==
    /\ MigrateIdle
    /\ JsonIdle
    /\ ConvIdle
    /\ AspNetUsers \in {s \in SeqsUpTo(UserIds, MaxUsers) :
                          \A m, n \in 1..Len(s) : m < n => s[m] < s[n]}
    /\ ItemAssignmentData \in AssignmentCollections
    /\ userRows = <<>>
    /\ userMap = {}
    /\ cleanPc = "Connect"
    /\ cleanErr = "nil"
    /\ validUserIDs = {}
    /\ docCursor = <<>>
    /\ listingCut = FALSE
    /\ deletedDocs = {}

\* cleanInvalidUserAssignments returns e; the deferred calls close the
\* cursor and the connections.
CleanReturn(e) ==
    /\ cleanErr' = e
    /\ cleanPc' = "Returned"
    /\ docCursor' = <<>>

\* mongo.Connect
CleanConnectOk ==
    /\ cleanPc = "Connect"
    /\ cleanPc' = "Open"
    /\ UNCHANGED <<migrateVars, jsonVars, convVars, AspNetUsers, ItemAssignmentData,
                   userRows, userMap, cleanErr, validUserIDs, docCursor,
                   listingCut, deletedDocs>>

CleanConnectFail ==
    /\ cleanPc = "Connect"
    /\ CleanReturn("connect")
    /\ UNCHANGED <<migrateVars, jsonVars, convVars, AspNetUsers, ItemAssignmentData,
                   userRows, userMap, validUserIDs, listingCut, deletedDocs>>

\* sql.Open
SqlOpenOk ==
    /\ cleanPc = "Open"
    /\ cleanPc' = "Query"
    /\ UNCHANGED <<migrateVars, jsonVars, convVars, AspNetUsers, ItemAssignmentData,
                   userRows, userMap, cleanErr, validUserIDs, docCursor,
                   listingCut, deletedDocs>>

SqlOpenFail ==
    /\ cleanPc = "Open"
    /\ CleanReturn("open")
    /\ UNCHANGED <<migrateVars, jsonVars, convVars, AspNetUsers, ItemAssignmentData,
                   userRows, userMap, validUserIDs, listingCut, deletedDocs>>

\* getAllUserIDsFromMySQL: SELECT Id FROM AspNetUsers
UsersQueryOk ==
    /\ cleanPc = "Query"
    /\ userMap' = {}
    /\ userRows' = AspNetUsers
    /\ cleanPc' = "UserRows"
    /\ UNCHANGED <<migrateVars, jsonVars, convVars, AspNetUsers, ItemAssignmentData,
                   cleanErr, validUserIDs, docCursor, listingCut, deletedDocs>>

\* The query fails: return nil, err, and the caller returns err.
UsersQueryFail ==
    /\ cleanPc = "Query"
    /\ CleanReturn("query")
    /\ UNCHANGED <<migrateVars, jsonVars, convVars, AspNetUsers, ItemAssignmentData,
                   userRows, userMap, validUserIDs, listingCut, deletedDocs>>

\* rows.Next() delivers a row and Scan succeeds: userMap[id] = struct{}{}
UserRowOk ==
    /\ cleanPc = "UserRows"
    /\ userRows # <<>>
    /\ userMap' = userMap \cup {Head(userRows)}
    /\ userRows' = Tail(userRows)
    /\ UNCHANGED <<migrateVars, jsonVars, convVars, AspNetUsers, ItemAssignmentData,
                   cleanPc, cleanErr, validUserIDs, docCursor, listingCut,
                   deletedDocs>>

\* Scan fails: the error is logged and the loop continues without the row.
UserRowScanFail ==
    /\ cleanPc = "UserRows"
    /\ userRows # <<>>
    /\ userRows' = Tail(userRows)
    /\ listingCut' = TRUE
    /\ UNCHANGED <<migrateVars, jsonVars, convVars, AspNetUsers, ItemAssignmentData,
                   userMap, cleanPc, cleanErr, validUserIDs, docCursor, deletedDocs>>

\* The listing is over: return userMap, nil (rows.Close() by defer).
UsersReturned ==
    /\ validUserIDs' = userMap
    /\ userRows' = <<>>
    /\ cleanPc' = "Find"

\* rows.Next() is false because every row was delivered.
UserRowsEnd ==
    /\ cleanPc = "UserRows"
    /\ userRows = <<>>
    /\ UsersReturned
    /\ UNCHANGED <<migrateVars, jsonVars, convVars, AspNetUsers, ItemAssignmentData,
                   userMap, cleanErr, docCursor, listingCut, deletedDocs>>

\* rows.Next() is false because reading the next row failed; rows.Err()
\* is not consulted, so the map built so far is returned with a nil error.
UserRowsIterErr ==
    /\ cleanPc = "UserRows"
    /\ userRows # <<>>
    /\ listingCut' = TRUE
    /\ UsersReturned
    /\ UNCHANGED <<migrateVars, jsonVars, convVars, AspNetUsers, ItemAssignmentData,
                   userMap, cleanErr, docCursor, deletedDocs>>

\* itemAssignmentCol.Find(ctx, bson.M{})
CleanFindOk ==
    /\ cleanPc = "Find"
    /\ docCursor' = InOrder(ItemAssignmentData)
    /\ cleanPc' = "Docs"
    /\ UNCHANGED <<migrateVars, jsonVars, convVars, AspNetUsers, ItemAssignmentData,
                   userRows, userMap, cleanErr, validUserIDs, listingCut,
                   deletedDocs>>

CleanFindFail ==
    /\ cleanPc = "Find"
    /\ CleanReturn("find")
    /\ UNCHANGED <<migrateVars, jsonVars, convVars, AspNetUsers, ItemAssignmentData,
                   userRows, userMap, validUserIDs, listingCut, deletedDocs>>

\* The loop body goes on to the next document without a write.
NextDoc ==
    /\ docCursor' = Tail(docCursor)
    /\ UNCHANGED <<migrateVars, jsonVars, convVars, AspNetUsers, ItemAssignmentData,
                   userRows, userMap, cleanPc, cleanErr, validUserIDs,
                   listingCut, deletedDocs>>

\* cursor.Decode fails: continue.
DocDecodeFail ==
    /\ cleanPc = "Docs"
    /\ docCursor # <<>>
    /\ NextDoc

\* doc["UserId"].(string) fails: continue.
DocNotString ==
    /\ cleanPc = "Docs"
    /\ docCursor # <<>>
    /\ Head(docCursor).UserId.type # "string"
    /\ NextDoc

\* validUserIDs[userId] exists: nothing to do.
DocOfListedUser ==
    /\ cleanPc = "Docs"
    /\ docCursor # <<>>
    /\ Head(docCursor).UserId.type = "string"
    /\ Head(docCursor).UserId.s \in validUserIDs
    /\ NextDoc

\* doc["_id"].(primitive.ObjectID) fails: continue.
DocIdNotObjectID ==
    /\ cleanPc = "Docs"
    /\ docCursor # <<>>
    /\ Head(docCursor).UserId.type = "string"
    /\ Head(docCursor).UserId.s \notin validUserIDs
    /\ Head(docCursor).idType # "objectID"
    /\ NextDoc

\* DeleteOne(ctx, bson.M{"_id": id}) succeeds.
DocDeleteOk ==
    /\ cleanPc = "Docs"
    /\ docCursor # <<>>
    /\ Head(docCursor).UserId.type = "string"
    /\ Head(docCursor).UserId.s \notin validUserIDs
    /\ Head(docCursor).idType = "objectID"
    /\ ItemAssignmentData' = ItemAssignmentData \ {Head(docCursor)}
    /\ deletedDocs' = deletedDocs \cup {Head(docCursor)}
    /\ docCursor' = Tail(docCursor)
    /\ UNCHANGED <<migrateVars, jsonVars, convVars, AspNetUsers, userRows, userMap,
                   cleanPc, cleanErr, validUserIDs, listingCut>>

\* DeleteOne fails: the failure is logged and the loop continues.
DocDeleteFail ==
    /\ cleanPc = "Docs"
    /\ docCursor # <<>>
    /\ Head(docCursor).UserId.type = "string"
    /\ Head(docCursor).UserId.s \notin validUserIDs
    /\ Head(docCursor).idType = "objectID"
    /\ NextDoc

\* cursor.Next is false, at the end of the collection or on an error
\* (cursor.Err() is not consulted): return nil.
DocsEnd ==
    /\ cleanPc = "Docs"
    /\ CleanReturn("nil")
    /\ UNCHANGED <<migrateVars, jsonVars, convVars, AspNetUsers, ItemAssignmentData,
                   userRows, userMap, validUserIDs, listingCut, deletedDocs>>

CleanNext ==
    \/ CleanConnectOk \/ CleanConnectFail \/ SqlOpenOk \/ SqlOpenFail
    \/ UsersQueryOk \/ UsersQueryFail
    \/ UserRowOk \/ UserRowScanFail \/ UserRowsEnd \/ UserRowsIterErr
    \/ CleanFindOk \/ CleanFindFail
    \/ DocDecodeFail \/ DocNotString \/ DocOfListedUser \/ DocIdNotObjectID
    \/ DocDeleteOk \/ DocDeleteFail \/ DocsEnd

CleanSpec == CleanInit /\ [][CleanNext]_vars

(***************************************************************************)
(* C32                                                                     *)
(***************************************************************************)
\* The document's UserId is a string that is the Id of a row of AspNetUsers.
OfExistingUser(d) ==
    d.UserId.type = "string" /\ d.UserId.s \in Range(AspNetUsers)

\* C32 as stated: every document deleted has a string UserId that is the
\* Id of no row of AspNetUsers.
C32_AsStated ==
    \A d \in deletedDocs : d.UserId.type = "string" /\ ~OfExistingUser(d)

\* C32 as far as the code goes: a document is deleted only if its UserId is
\* a string that is missing from the map the listing returned; that map
\* holds only Ids of existing users, and all of them when no row was lost.
C32_DeletesOnlyUnlisted ==
    /\ \A d \in deletedDocs :
         /\ d.UserId.type = "string"
         /\ d.UserId.s \notin validUserIDs
         /\ d.idType = "objectID"
    /\ validUserIDs \subseteq Range(AspNetUsers)
    /\ (cleanPc \in {"Find", "Docs"} /\ ~listingCut) => validUserIDs = Range(AspNetUsers)
    /\ ~listingCut => \A d \in deletedDocs : ~OfExistingUser(d)

\* A document of a user that does not exist was deleted, one of an
\* existing user and one without a string UserId were passed over.
C32_Witness ==
    /\ cleanPc = "Returned"
    /\ cleanErr = "nil"
    /\ ~listingCut
    /\ AspNetUsers # <<>>
    /\ deletedDocs # {}
    /\ \E d \in ItemAssignmentData : OfExistingUser(d) /\ d.idType = "objectID"

(***************************************************************************)
(* src/unnamed/part_002: convertStringIDsToObjectIDs                       *)
(***************************************************************************)
\* The most documents the collection holds at the start.
MaxConvDocs == 2

\* The contents a document may have besides its _id.
ConvBodies == {"a", "b"}

StringID(v) == [type |-> "string", v |-> v]

ObjectID(v) == [type |-> "objectID", v |-> v]

\* The collections of up to MaxConvDocs documents: document j has the _id
\* j, a string or an ObjectID, and some content; n is not a field of the
\* document, it names the original a content comes from.
ConvCollections ==
    UNION {{{[n |-> j, id |-> [type |-> f[j].type, v |-> j], body |-> f[j].body] :
                 j \in 1..m} :
               f \in [1..m -> [type : {"string", "objectID"}, body : ConvBodies]]} :
           m \in 0..MaxConvDocs}

\* filter: {"_id": {"$type": "string"}}
HasStringID(d) == d.id.type = "string"

ConvInit ==
    /\ MigrateIdle
    /\ JsonIdle
    /\ CleanIdle
    /\ idCollection \in ConvCollections
    /\ idOriginal = idCollection
    /\ idPc = "Connect"
    /\ idErr = "nil"
    /\ idCursor = <<>>
    /\ idDoc = NoDoc
    /\ oldID = ""
    /\ nextObjectID = MaxConvDocs + 1
    /\ idOps = <<>>

\* convertStringIDsToObjectIDs returns e; the cursor is closed by defer.
ConvReturn(e) ==
    /\ idErr' = e
    /\ idPc' = "Returned"
    /\ idCursor' = <<>>

\* mongo.Connect
ConvConnectOk ==
    /\ idPc = "Connect"
    /\ idPc' = "Find"
    /\ UNCHANGED <<migrateVars, jsonVars, cleanVars, idCollection, idErr, idCursor,
                   idDoc, oldID, nextObjectID, idOriginal, idOps>>

ConvConnectFail ==
    /\ idPc = "Connect"
    /\ ConvReturn("failed to connect to MongoDB")
    /\ UNCHANGED <<migrateVars, jsonVars, cleanVars, idCollection, idDoc, oldID,
                   nextObjectID, idOriginal, idOps>>

\* collection.Find with the filter on the type of _id
ConvFindOk ==
    /\ idPc = "Find"
    /\ idCursor' = InOrder({d \in idCollection : HasStringID(d)})
    /\ idPc' = "Next"
    /\ UNCHANGED <<migrateVars, jsonVars, cleanVars, idCollection, idErr, idDoc,
                   oldID, nextObjectID, idOriginal, idOps>>

ConvFindFail ==
    /\ idPc = "Find"
    /\ ConvReturn("failed to find documents")
    /\ UNCHANGED <<migrateVars, jsonVars, cleanVars, idCollection, idDoc, oldID,
                   nextObjectID, idOriginal, idOps>>

\* cursor.Decode fails: continue.
ConvDecodeFail ==
    /\ idPc = "Next"
    /\ idCursor # <<>>
    /\ idCursor' = Tail(idCursor)
    /\ UNCHANGED <<migrateVars, jsonVars, cleanVars, idCollection, idPc, idErr,
                   idDoc, oldID, nextObjectID, idOriginal, idOps>>

\* The document is decoded; unless its _id is not a string (continue),
\* oldID is kept and doc["_id"] becomes a new ObjectID.
ConvDecodeOk ==
    /\ idPc = "Next"
    /\ idCursor # <<>>
    /\ idCursor' = Tail(idCursor)
    /\ IF HasStringID(Head(idCursor))
       THEN /\ oldID' = Head(idCursor).id.v
            /\ idDoc' = [Head(idCursor) EXCEPT !.id = ObjectID(nextObjectID)]
            /\ nextObjectID' = nextObjectID + 1
            /\ idPc' = "Insert"
       ELSE UNCHANGED <<oldID, idDoc, nextObjectID, idPc>>
    /\ UNCHANGED <<migrateVars, jsonVars, cleanVars, idCollection, idErr,
                   idOriginal, idOps>>

\* A write issued on the collection.
ConvOp(op, n, ok) == [op |-> op, n |-> n, ok |-> ok]

\* InsertOne(ctx, doc) succeeds.
ConvInsertOk ==
    /\ idPc = "Insert"
    /\ idCollection' = idCollection \cup {idDoc}
    /\ idOps' = Append(idOps, ConvOp("Insert", idDoc.n, TRUE))
    /\ idPc' = "Delete"
    /\ UNCHANGED <<migrateVars, jsonVars, cleanVars, idErr, idCursor, idDoc, oldID,
                   nextObjectID, idOriginal>>

\* InsertOne reports an error although the collection is left without
\* the copy, and the original is deleted all the same.
ConvInsertFailDeletes ==
    /\ idPc = "Insert"
    /\ idOps' = Append(idOps, ConvOp("Insert", idDoc.n, FALSE))
    /\ idPc' = "Delete"
    /\ UNCHANGED <<migrateVars, jsonVars, cleanVars, idCollection, idErr, idCursor,
                   idDoc, oldID, nextObjectID, idOriginal>>

\* InsertOne reports an error: the failure is logged and the loop
\* continues.  The write was not applied, or it was and the reply was lost
\* (the context has a deadline).
ConvInsertFail ==
    /\ idPc = "Insert"
    /\ \E applied \in BOOLEAN :
         idCollection' = IF applied THEN idCollection \cup {idDoc} ELSE idCollection
    /\ idOps' = Append(idOps, ConvOp("Insert", idDoc.n, FALSE))
    /\ idPc' = "Next"
    /\ UNCHANGED <<migrateVars, jsonVars, cleanVars, idErr, idCursor, idDoc, oldID,
                   nextObjectID, idOriginal>>

\* The collection without the document whose _id is the string v.
WithoutStringID(coll, v) == {d \in coll : d.id # StringID(v)}

\* DeleteOne(ctx, bson.M{"_id": oldID}) succeeds.
ConvDeleteOk ==
    /\ idPc = "Delete"
    /\ idCollection' = WithoutStringID(idCollection, oldID)
    /\ idOps' = Append(idOps, ConvOp("Delete", idDoc.n, TRUE))
    /\ idPc' = "Next"
    /\ UNCHANGED <<migrateVars, jsonVars, cleanVars, idErr, idCursor, idDoc, oldID,
                   nextObjectID, idOriginal>>

\* DeleteOne reports an error: logged, continue; applied or not.
ConvDeleteFail ==
    /\ idPc = "Delete"
    /\ \E applied \in BOOLEAN :
         idCollection' = IF applied THEN WithoutStringID(idCollection, oldID)
                         ELSE idCollection
    /\ idOps' = Append(idOps, ConvOp("Delete", idDoc.n, FALSE))
    /\ idPc' = "Next"
    /\ UNCHANGED <<migrateVars, jsonVars, cleanVars, idErr, idCursor, idDoc, oldID,
                   nextObjectID, idOriginal>>

\* cursor.Next is false, at the end of the cursor or on an error
\* (cursor.Err() is not consulted): return nil.
ConvEnd ==
    /\ idPc = "Next"
    /\ ConvReturn("nil")
    /\ UNCHANGED <<migrateVars, jsonVars, cleanVars, idCollection, idDoc, oldID,
                   nextObjectID, idOriginal, idOps>>

ConvNext ==
    \/ ConvConnectOk \/ ConvConnectFail \/ ConvFindOk \/ ConvFindFail
    \/ ConvDecodeFail \/ ConvDecodeOk
    \/ ConvInsertOk \/ ConvInsertFail \/ ConvDeleteOk \/ ConvDeleteFail
    \/ ConvEnd

ConvSpec == ConvInit /\ [][ConvNext]_vars

(***************************************************************************)
(* C33                                                                     *)
(***************************************************************************)
\* The documents of the collection that hold the content of original d.
CopiesOf(d) == {e \in idCollection : e.n = d.n /\ e.body = d.body}

\* The write op on the content of original d was issued and succeeded.
Succeeded(op, d) ==
    \E p \in 1..Len(idOps) : idOps[p] = ConvOp(op, d.n, TRUE)

\* C33: in every state the collection holds at least one copy of the
\* content of each original document; every DeleteOne issued comes right
\* after a successful InsertOne of the same content; a document whose _id
\* is not a string stays as it is; and when InsertOne and DeleteOne have
\* both succeeded for a document, exactly one copy remains and its _id is
\* an ObjectID.
C33_NoDocumentLost ==
    /\ \A d \in idOriginal : CopiesOf(d) # {}
    /\ \A p \in 1..Len(idOps) :
         idOps[p].op = "Delete" =>
             /\ p > 1
             /\ idOps[p - 1] = ConvOp("Insert", idOps[p].n, TRUE)
    /\ \A d \in idOriginal : ~HasStringID(d) => d \in idCollection
    /\ \A d \in idOriginal :
         (Succeeded("Insert", d) /\ Succeeded("Delete", d)) =>
             /\ Cardinality(CopiesOf(d)) = 1
             /\ \A e \in CopiesOf(d) : e.id.type = "objectID"

\* The function has returned after converting one document (both steps
\* succeeded, one copy left) and failing to delete another, of which the
\* original and the copy are both in the collection.
C33_Witness ==
    /\ idPc = "Returned"
    /\ \E d \in idOriginal : Succeeded("Insert", d) /\ Succeeded("Delete", d)
    /\ \E d \in idOriginal :
         /\ Succeeded("Insert", d)
         /\ idOps[Len(idOps)] = ConvOp("Delete", d.n, FALSE)
         /\ Cardinality(CopiesOf(d)) = 2

(***************************************************************************)
(* C34                                                                     *)
(***************************************************************************)
\* Every call returns: runMigration takes its next step.
FairJsonSpec == JsonSpec /\ WF_vars(JsonNext)

\* The documents whose field still holds the text of valid JSON: they
\* matched the filter at the start and were not converted.
Unconverted ==
    {id \in 1..Len(collection) :
        collection[id].Content.type = "string" /\ ValidJSON(collection[id].Content.s)}

\* performMigration has returned nil, and no call it made has failed:
\* no aggregation, no decoding, no cursor, no bulk write.
ReturnedUnfailed ==
    /\ ~config.DryRun
    /\ jpc = "Returned"
    /\ jerr = "nil"
    /\ \A n \in 1..Len(ops) : ops[n].ok

\* C34 as stated: when performMigration returns without a failure, no
\* document that matched the filter and holds valid JSON is left
\* unconverted.
C34_AsStated == ReturnedUnfailed => Unconverted = {}

\* C34, the termination part: runMigration returns.
C34_Terminates == <>(jpc = "Returned")

=============================================================================
